---- MODULE Spec2Model ----
(***************************************************************************)
(* Verification model of the Sign-AI-Platform backend.                     *)
(*                                                                         *)
(*   SpecReg: the WebSocket connection registry (api/config.py)            *)
(*   SpecWS : the registry as driven by the two WebSocket channels         *)
(*            (api/websocket.py)                                           *)
(*   SpecDT : the translation cache and DualTranslator                     *)
(*            (services/dual_translator.py)                                *)
(*   SpecSR : the frame window of SignRecognitionService                   *)
(*            (services/sign_recognition.py)                               *)
(*   SpecDB : the speaker database (utils/speaker_db.py)                   *)
(*   SpecTC : the translation cache under concurrent callers               *)
(*   SpecLK : SignRecognitionService under concurrent workers              *)
(*   SpecBO : BatchInferenceOptimizer (utils/performance_optimizer.py)     *)
(*   SpecLRU: LRUCache (utils/performance_optimizer.py)                    *)
(*   SpecML : ModelLoader.download_model (utils/model_loader.py)           *)
(*   SpecASR: WhisperASRService.transcribe_stream                          *)
(*            (services/whisper_asr.py)                                    *)
(*   SpecSCH: SequenceScheduler (services/text_to_sign.py)                 *)
(*   SpecCAP: the translation cache called directly                        *)
(*   SpecSM : SignRecognitionService._apply_smoothing called directly      *)
(*   SpecSS : SequenceSmoother.smooth_sequence (services/sign_to_text.py)  *)
(*   SpecBI : ConnectionManager.broadcast interleaved with connect and     *)
(*            disconnect (api/config.py)                                   *)
(*   SpecTG : DualTranslator.text_to_sign with apply_grammar and rhythm    *)
(*   SpecSV : SignVocab (utils/sign_vocab.py)                              *)
(*   SpecFL : BatchInferenceOptimizer with callbacks that call it again    *)
(*   SpecGS : get_asr_service (services/whisper_asr.py)                    *)
(*   SpecTR : TextToSignService.translate (services/text_to_sign.py)       *)
(*                                                                         *)
(* Each specification moves only the variables of its component.           *)
(***************************************************************************)
EXTENDS Integers, Sequences, FiniteSets, TLC

VARIABLES
    \* ---- connection registry and WebSocket channels
    active_connections,   \* ConnectionManager.active_connections, in dict order
    connection_count,     \* ConnectionManager.connection_count
    handler,              \* per socket: where its endpoint coroutine is
    client,               \* per socket: the client id it connected under
    ws_last,              \* the last registry/channel operation and its outcome
    bc,                   \* the broadcast of that operation: who was sent what
    \* ---- DualTranslator
    cache,                \* TranslationCache.cache: key -> (result, timestamp)
    stats,                \* DualTranslator.stats
    now,                  \* time.time()
    dt_last,              \* the last translator call and its outcome
    \* ---- SignRecognitionService
    window_size,          \* self.window_size
    buffer_maxlen,        \* maxlen of the frame_buffer deque, fixed by __init__
    frame_buffer,         \* self.frame_buffer
    prediction_history,   \* self.prediction_history
    total_frames,         \* self.total_frames
    total_predictions,    \* self.total_predictions
    sr_last,              \* the last service call and its outcome
    calls,                \* process_frame calls made
    since_empty,          \* frames with a hand processed since the window was emptied
    calls_since_empty,    \* process_frame calls since the window was emptied
    resized,              \* set_window_size(n), n > 0, has been called
    \* ---- SpeakerDatabase
    speakers_index,       \* self.speakers_index: speaker id -> profile
    samples_index,        \* self.samples_index: sample id -> sample
    speaker_samples,      \* self.speaker_samples: speaker id -> list of sample ids
    embedding_files,      \* embeddings/<sample id>.npy: sample id -> vector
    speaker_files,        \* embeddings/speaker_<speaker id>.npy
    audio_files,          \* the sample ids whose audio file exists
    speakers_made,        \* speaker ids handed out
    samples_made,         \* sample ids handed out
    db_last,              \* the last database call and its outcome
    \* ---- TranslationCache under concurrent callers
    lock,                 \* TranslationCache.lock: the thread holding it, or 0
    thread,               \* per thread: where it is in its call, its locals
    serial,               \* the cache of the same calls made one after the other
    returned,             \* the last return value, and the sequential run's
    tc_ops,               \* calls begun
    \* ---- SignRecognitionService under concurrent callers
    sr_lock,              \* SignRecognitionService.lock: the worker holding it, or 0
    worker,               \* per worker: where it is in its call
    sr_access,            \* the last access to a shared field
    requests,             \* calls begun
    \* ---- BatchInferenceOptimizer
    batch_size,           \* self.batch_size
    batch_buffer,         \* self.buffer
    pending,              \* batches add_to_batch returned, not yet run
    released,             \* per pair: how often it left the buffer
    invoked,              \* per pair: how often its callback was called
    submitted,            \* pairs submitted
    runs_ok,              \* no run of a batch has raised
    bo_last,              \* the last optimizer call
    \* ---- LRUCache
    capacity,             \* self.capacity
    lru,                  \* self.cache: the keys, in OrderedDict order
    touched,              \* per key: when it was last touched
    clock,                \* gets and puts made
    lru_last,             \* the last cache call and its outcome
    \* ---- ModelLoader
    cache_files,          \* per model name: the file <cache_dir>/<name>.pth
    ml_last,              \* the last loader call and its outcome
    \* ---- WhisperASRService.transcribe_stream
    asr_rate,             \* config.sample_rate
    asr_target,           \* target_length
    asr_buffer,           \* buffer: the samples waiting
    asr_transcribed,      \* the slices handed to self.transcribe, in order
    asr_seen,             \* preprocessed samples the stream has delivered
    asr_chunks,           \* chunks the stream has delivered
    asr_pc,               \* "streaming", "ended" or "raised"
    \* ---- SequenceScheduler
    pause_duration,       \* self.pause_duration
    sch_actions,          \* the list of SignAction the scheduler is given
    sch_last,             \* the last scheduler call and its result
    \* ---- TranslationCache called directly
    cap_last,             \* the last cache call and the cache it found
    \* ---- SignRecognitionService._apply_smoothing called directly
    sm_last,              \* the last direct call and its result
    \* ---- SequenceSmoother
    ss_last,              \* the last smooth_sequence call and its result
    \* ---- ConnectionManager.broadcast interleaved with connect and disconnect
    bi_slots,             \* active_connections as the dict's entry array
    bi_count,             \* connection_count
    bi,                   \* the broadcast in progress: iterator and log
    \* ---- DualTranslator.text_to_sign with apply_grammar and rhythm
    tg_last,              \* the last text_to_sign call and what it returned
    \* ---- SignVocab
    word_to_idx,          \* SignVocab.word_to_idx
    idx_to_word,          \* SignVocab.idx_to_word
    sv_last,              \* the last vocabulary call and what it returned
    \* ---- BatchInferenceOptimizer with callbacks that call it again
    fl_buffer,            \* self.buffer, each pair as the kind of its callback
    fl_lock,              \* self.lock is held
    fl_stack,             \* the calls in progress, innermost last
    fl_submitted,         \* add_to_batch calls made by the application
    \* ---- get_asr_service
    asr_service,          \* the global _asr_service: None or the service's state
    gs_initialize,        \* how many times initialize() has been run
    gs_received,          \* what each caller's last call gave it
    gs_calls,             \* get_asr_service calls made
    \* ---- TextToSignService.translate
    tr_last               \* the last translate call and its SignSequence

wsVars == <<active_connections, connection_count, handler, client, ws_last, bc>>
dtVars == <<cache, stats, now, dt_last>>
srVars == <<window_size, buffer_maxlen, frame_buffer, prediction_history,
            total_frames, total_predictions, sr_last, calls,
            since_empty, calls_since_empty, resized>>
dbVars == <<speakers_index, samples_index, speaker_samples, embedding_files,
            speaker_files, audio_files, speakers_made, samples_made, db_last>>
\* The gateway, translator and recognition components; the utility components.
coreVars == <<wsVars, dtVars, srVars>>
tcVars == <<lock, thread, serial, returned, tc_ops>>
lkVars == <<sr_lock, worker, sr_access, requests>>
boVars == <<batch_size, batch_buffer, pending, released, invoked, submitted,
            runs_ok, bo_last>>
lruVars == <<capacity, lru, touched, clock, lru_last>>
mlVars == <<cache_files, ml_last>>
asrVars == <<asr_rate, asr_target, asr_buffer, asr_transcribed, asr_seen,
             asr_chunks, asr_pc>>
schVars == <<pause_duration, sch_actions, sch_last>>
capVars == <<cap_last>>
\* The further components, each with the others of them.
smVars == <<sm_last>>
ssVars == <<ss_last>>
biVars == <<bi_slots, bi_count, bi>>
tgVars == <<tg_last>>
svVars == <<word_to_idx, idx_to_word, sv_last>>
flVars == <<fl_buffer, fl_lock, fl_stack, fl_submitted>>
gsVars == <<asr_service, gs_initialize, gs_received, gs_calls>>
trVars == <<tr_last>>
extVars == <<smVars, ssVars, biVars, tgVars, svVars, flVars, gsVars, trVars>>
ExtButSM == <<ssVars, biVars, tgVars, svVars, flVars, gsVars, trVars>>
ExtButSS == <<smVars, biVars, tgVars, svVars, flVars, gsVars, trVars>>
ExtButBI == <<smVars, ssVars, tgVars, svVars, flVars, gsVars, trVars>>
ExtButTG == <<smVars, ssVars, biVars, svVars, flVars, gsVars, trVars>>
ExtButSV == <<smVars, ssVars, biVars, tgVars, flVars, gsVars, trVars>>
ExtButFL == <<smVars, ssVars, biVars, tgVars, svVars, gsVars, trVars>>
ExtButGS == <<smVars, ssVars, biVars, tgVars, svVars, flVars, trVars>>
ExtButTR == <<smVars, ssVars, biVars, tgVars, svVars, flVars, gsVars>>
libVars ==
    <<dbVars, tcVars, lkVars, boVars, lruVars, mlVars, asrVars, schVars, capVars>>
utilVars == <<libVars, extVars>>
vars == <<coreVars, utilVars>>

\* What an operation of one component leaves alone.
NotWS == UNCHANGED <<dtVars, srVars, utilVars>>
NotDT == UNCHANGED <<wsVars, srVars, utilVars>>
NotSR == UNCHANGED <<wsVars, dtVars, utilVars>>
NotDB ==
    UNCHANGED <<coreVars, tcVars, lkVars, boVars, lruVars, mlVars, asrVars, schVars, capVars,
                extVars>>
NotTC ==
    UNCHANGED <<wsVars, srVars, dbVars, lkVars, boVars, lruVars, mlVars, asrVars, schVars, capVars,
                extVars>>

(***************************************************************************)
(* Bounds of the model.                                                    *)
(***************************************************************************)
MaxSockets == 2

\* DualTranslator: the cache capacity (cache_size, at least 1), the TTL in
\* clock ticks (ttl; 3600 s in the source), the last clock value, the number
\* of translations a run makes and the longest batch.
CacheSize == 2
Ttl == 2
MaxTime == 3
MaxCalls == 3
MaxBatch == 3

\* SignRecognitionService: the largest window size and the number of
\* process_frame calls of a run.
MaxWindow == 3
MaxFrames == 5

\* Python's None
NoId == "<None>"

Range(s) == {s[i] : i \in DOMAIN s}

(***************************************************************************)
(* Connection registry: api/config.py, class ConnectionManager.            *)
(***************************************************************************)
Sockets == 1..MaxSockets

\* Client ids a caller of the registry can pass (any str, the empty one too).
Ids == {"", "a", "b"}

\* Client ids the routes /video/{client_id}, /translation/{client_id} bind.
RouteIds == {"a", "b"}

\* The truth value Python gives an Optional[str].
Truthy(x) == x /= NoId /\ x /= ""

Keys(conns) == {conns[i].id : i \in DOMAIN conns}

Lookup(conns, id) == (CHOOSE i \in DOMAIN conns : conns[i].id = id)

\* active_connections[client_id] = websocket: a known key keeps its place.
SetItem(conns, id, ws) ==
    IF id \in Keys(conns)
    THEN [i \in DOMAIN conns |->
            IF conns[i].id = id THEN [id |-> id, ws |-> ws] ELSE conns[i]]
    ELSE Append(conns, [id |-> id, ws |-> ws])

DelItem(conns, id) == SelectSeq(conns, LAMBDA e : e.id /= id)

\* A registry value: the dict and the counter.
Reg(conns, count) == [conns |-> conns, count |-> count]

ManagerConnect(reg, ws, id) ==
    Reg(SetItem(reg.conns, id, ws), reg.count + 1)

\* A disconnect that forgets the counter.
ManagerDisconnectKeepsCount(reg, id) ==
    IF id \in Keys(reg.conns)
    THEN Reg(DelItem(reg.conns, id), reg.count)
    ELSE reg

ManagerDisconnect(reg, id) ==
    IF id \in Keys(reg.conns)
    THEN Reg(DelItem(reg.conns, id), reg.count - 1)
    ELSE reg

get_connection_count == connection_count

is_connected(id) == id \in Keys(active_connections)

\* The `continue` of the broadcast loop.
Skipped(id, exclude) == Truthy(exclude) /\ id = exclude

\* A broadcast loop that a raising send ends.
BroadcastStopsAtFailure(conns, exclude, F) ==
    LET sent == SelectSeq(conns, LAMBDA e : ~Skipped(e.id, exclude))
        bad  == {i \in DOMAIN sent : sent[i].ws \in F}
    IN  IF bad = {} THEN sent
        ELSE SubSeq(sent, 1, CHOOSE i \in bad : \A j \in bad : i <= j)

\* The entries the broadcast loop calls send_json on, in dict order; F is the
\* set of sockets whose send raises.
BroadcastAttempted(conns, exclude, F) ==
    SelectSeq(conns, LAMBDA e : ~Skipped(e.id, exclude))

\* disconnected_clients
BroadcastFailed(conns, exclude, F) ==
    SelectSeq(BroadcastAttempted(conns, exclude, F), LAMBDA e : e.ws \in F)

RECURSIVE DisconnectAll(_, _)
DisconnectAll(reg, entries) ==
    IF entries = <<>> THEN reg
    ELSE DisconnectAll(ManagerDisconnect(reg, Head(entries).id), Tail(entries))

ManagerBroadcast(reg, exclude, F) ==
    DisconnectAll(reg, BroadcastFailed(reg.conns, exclude, F))

\* What a broadcast leaves in bc.
BroadcastLog(reg, exclude, F, status, total) ==
    [before    |-> Keys(reg.conns),
     count     |-> reg.count,
     exclude   |-> exclude,
     attempted |-> {e.id : e \in Range(BroadcastAttempted(reg.conns, exclude, F))},
     failed    |-> {e.id : e \in Range(BroadcastFailed(reg.conns, exclude, F))},
     \* the registered ids a send to which raises
     raising   |-> {e.id : e \in {x \in Range(reg.conns) : x.ws \in F}},
     status    |-> status,
     total     |-> total]

NoBroadcast ==
    [before |-> {}, count |-> 0, exclude |-> NoId, attempted |-> {},
     failed |-> {}, raising |-> {}, status |-> "none", total |-> 0]

WsOp(op, ws, id, ok, chan) ==
    [op |-> op, ws |-> ws, id |-> id, ok |-> ok, chan |-> chan,
     \* the id was registered when the operation began
     was_connected |-> id \in Keys(active_connections),
     \* connect: the registry was as __init__ leaves it;
     \* disconnect: it follows such a connect of the same id
     fresh |-> CASE op = "connect" ->
                      active_connections = <<>> /\ connection_count = 0
                 [] op = "disconnect" ->
                      /\ ws_last.op = "connect"
                      /\ ws_last.id = id
                      /\ ws_last.fresh
                 [] OTHER -> FALSE]

NoWsOp ==
    [op |-> "init", ws |-> 0, id |-> NoId, ok |-> TRUE, chan |-> "direct",
     was_connected |-> FALSE, fresh |-> FALSE]

CurrentReg == Reg(active_connections, connection_count)

SetReg(reg) ==
    /\ active_connections' = reg.conns
    /\ connection_count' = reg.count

Log(op) == ws_last' = op

\* The sockets now in the registry: the ones a send can fail on.
Live == {e.ws : e \in Range(active_connections)}

\* Socket handles are interchangeable: the next connection takes the least
\* unused one.
Unused(ws) ==
    /\ handler[ws] = "new"
    /\ \A w \in Sockets : w < ws => handler[w] /= "new"

\* ---- the registry called directly (it is a module-level object)

\* manager.connect(websocket, client_id); accept() has succeeded
connect(ws, id) ==
    /\ Unused(ws)
    /\ SetReg(ManagerConnect(CurrentReg, ws, id))
    /\ handler' = [handler EXCEPT ![ws] = "direct"]
    /\ client' = [client EXCEPT ![ws] = id]
    /\ Log(WsOp("connect", ws, id, TRUE, "direct"))
    /\ bc' = NoBroadcast
    /\ NotWS

\* manager.disconnect(client_id)
disconnect(id) ==
    /\ SetReg(ManagerDisconnect(CurrentReg, id))
    /\ Log(WsOp("disconnect", 0, id, TRUE, "direct"))
    /\ bc' = NoBroadcast
    /\ UNCHANGED <<handler, client>>
    /\ NotWS

\* The registry after send_personal_message(message, client_id), where
\* `fails` says whether send_json raises.
SendPersonal(reg, id, fails) ==
    IF id \in Keys(reg.conns) /\ fails THEN ManagerDisconnect(reg, id) ELSE reg

\* Its return value.
SendPersonalResult(reg, id, fails) == id \in Keys(reg.conns) /\ ~fails

send_personal_message(id, fails) ==
    /\ SetReg(SendPersonal(CurrentReg, id, fails))
    /\ Log(WsOp("send_personal", 0, id, SendPersonalResult(CurrentReg, id, fails), "direct"))
    /\ bc' = NoBroadcast
    /\ UNCHANGED <<handler, client>>
    /\ NotWS

\* manager.broadcast(message, exclude_client_id), as broadcast_translation_result
\* and broadcast_recognition_result call it (exclude = None) or any other caller
broadcast(exclude, F) ==
    /\ SetReg(ManagerBroadcast(CurrentReg, exclude, F))
    /\ bc' = BroadcastLog(CurrentReg, exclude, F, "message", 0)
    /\ Log(WsOp("broadcast", 0, exclude, TRUE, "direct"))
    /\ UNCHANGED <<handler, client>>
    /\ NotWS

(***************************************************************************)
(* WebSocket channels: api/websocket.py.                                   *)
(***************************************************************************)
Channels == {"video", "translation"}

\* What a send or receive of the endpoint's own socket does.
Raises == {"none", "WebSocketDisconnect", "Exception"}

\* The status the video endpoint's except clauses broadcast.
Status(exc) == IF exc = "WebSocketDisconnect" THEN "disconnected" ELSE "error"

\* A teardown that reads the count before it deregisters the client.
VideoTeardownCountsFirst(reg, id, status, F) ==
    LET removed == ManagerDisconnect(reg, id)
        total   == reg.count
    IN  [reg |-> ManagerBroadcast(removed, id, F),
         bc  |-> BroadcastLog(removed, id, F, status, total)]

\* except clauses of video_stream_websocket, with broadcast_status:
\* manager.disconnect(client_id), then the status message is built from
\* manager.get_connection_count() and broadcast, excluding client_id.
VideoTeardown(reg, id, status, F) ==
    LET removed == ManagerDisconnect(reg, id)
        total   == removed.count
    IN  [reg |-> ManagerBroadcast(removed, id, F),
         bc  |-> BroadcastLog(removed, id, F, status, total)]

\* except clauses of translation_websocket: manager.disconnect(client_id) only.
TranslationTeardown(reg, id) == ManagerDisconnect(reg, id)

EndpointTeardown(reg, chan, id, exc, F) ==
    IF chan = "video"
    THEN VideoTeardown(reg, id, Status(exc), F)
    ELSE [reg |-> TranslationTeardown(reg, id), bc |-> NoBroadcast]

\* The endpoint coroutine of socket ws leaves through an except clause; io_ok
\* says that its own send or receive did not raise.
Leave(reg, ws, op, exc, F, io_ok) ==
    LET t == EndpointTeardown(reg, handler[ws], client[ws], exc, F)
    IN  /\ SetReg(t.reg)
        /\ bc' = t.bc
        /\ handler' = [handler EXCEPT ![ws] = "closed"]
        /\ client' = [client EXCEPT ![ws] = NoId]
        /\ Log(WsOp(op, ws, client[ws], io_ok, handler[ws]))
        /\ NotWS

\* The endpoint coroutine of socket ws goes round its receive loop again.
Stay(reg, ws, op) ==
    /\ SetReg(reg)
    /\ Log(WsOp(op, ws, client[ws], TRUE, handler[ws]))
    /\ bc' = NoBroadcast
    /\ UNCHANGED <<handler, client>>
    /\ NotWS

\* manager.connect, then the connection-acknowledgement frame; exc is what
\* that send_json does.
Accept(ws, chan, id, exc) ==
    /\ Unused(ws)
    /\ LET reg == ManagerConnect(CurrentReg, ws, id)
       IN  IF exc = "none"
           THEN /\ SetReg(reg)
                /\ handler' = [handler EXCEPT ![ws] = chan]
                /\ client' = [client EXCEPT ![ws] = id]
                /\ bc' = NoBroadcast
           ELSE \E F \in SUBSET Live :
                  LET t == EndpointTeardown(reg, chan, id, exc, F)
                  IN  /\ SetReg(t.reg)
                      /\ handler' = [handler EXCEPT ![ws] = "closed"]
                      /\ UNCHANGED client
                      /\ bc' = t.bc
    /\ Log(WsOp("accept", ws, id, exc = "none", chan))
    /\ NotWS

\* A malformed message that ends the connection.
BadJsonTearsDown(ws, exc) ==
    \E F \in SUBSET Live :
        Leave(CurrentReg, ws, "bad_json", "Exception", F, exc = "none")

\* json.loads raises JSONDecodeError: the error frame is sent on the
\* endpoint's own socket; exc is what that send_json does.
BadJson(ws, exc) ==
    IF exc = "none"
    THEN Stay(CurrentReg, ws, "bad_json")
    ELSE \E F \in SUBSET Live :
            Leave(CurrentReg, ws, "bad_json", exc, F, FALSE)

\* A parsed message whose handler replies through
\* manager.send_personal_message(reply, client_id): ping, config,
\* start_recognition, stop_recognition, a video frame, a translation request.
Reply(ws, fails) ==
    Stay(SendPersonal(CurrentReg, client[ws], fails), ws, "reply")

\* A parsed message of an unknown type: logged.
Ignored(ws) == Stay(CurrentReg, ws, "ignored")

\* json.loads returns a value with no .get (a list, a number): AttributeError.
NotAnObject(ws) ==
    \E F \in SUBSET Live :
        Leave(CurrentReg, ws, "not_object", "Exception", F, TRUE)

\* websocket.receive / receive_text raises.
ReceiveRaises(ws, exc) ==
    \E F \in SUBSET Live : Leave(CurrentReg, ws, "closed", exc, F, FALSE)

video_accept(ws, id, exc) == Accept(ws, "video", id, exc)

video_bad_json(ws, exc) == handler[ws] = "video" /\ BadJson(ws, exc)

video_reply(ws, fails) == handler[ws] = "video" /\ Reply(ws, fails)

video_ignored(ws) == handler[ws] = "video" /\ Ignored(ws)

video_not_object(ws) == handler[ws] = "video" /\ NotAnObject(ws)

video_closed(ws, exc) == handler[ws] = "video" /\ ReceiveRaises(ws, exc)

translation_accept(ws, id, exc) == Accept(ws, "translation", id, exc)

translation_bad_json(ws, exc) == handler[ws] = "translation" /\ BadJson(ws, exc)

translation_reply(ws, fails) == handler[ws] = "translation" /\ Reply(ws, fails)

translation_not_object(ws) == handler[ws] = "translation" /\ NotAnObject(ws)

translation_closed(ws, exc) ==
    handler[ws] = "translation" /\ ReceiveRaises(ws, exc)

InitWS ==
    /\ active_connections = <<>>
    /\ connection_count = 0
    /\ handler = [s \in Sockets |-> "new"]
    /\ client = [s \in Sockets |-> NoId]
    /\ ws_last = NoWsOp
    /\ bc = NoBroadcast

\* The registry as other components call it.
NextReg ==
    \/ \E ws \in Sockets, id \in Ids : connect(ws, id)
    \/ \E id \in Ids : disconnect(id)
    \/ \E id \in Ids, fails \in BOOLEAN : send_personal_message(id, fails)
    \/ \E x \in Ids \cup {NoId}, F \in SUBSET Live : broadcast(x, F)

\* The two WebSocket endpoints.
NextWS ==
    \/ \E ws \in Sockets, id \in RouteIds, exc \in Raises :
          video_accept(ws, id, exc)
    \/ \E ws \in Sockets, exc \in Raises : video_bad_json(ws, exc)
    \/ \E ws \in Sockets, fails \in BOOLEAN : video_reply(ws, fails)
    \/ \E ws \in Sockets : video_ignored(ws)
    \/ \E ws \in Sockets : video_not_object(ws)
    \/ \E ws \in Sockets, exc \in Raises \ {"none"} : video_closed(ws, exc)
    \/ \E ws \in Sockets, id \in RouteIds, exc \in Raises :
          translation_accept(ws, id, exc)
    \/ \E ws \in Sockets, exc \in Raises : translation_bad_json(ws, exc)
    \/ \E ws \in Sockets, fails \in BOOLEAN : translation_reply(ws, fails)
    \/ \E ws \in Sockets : translation_not_object(ws)
    \/ \E ws \in Sockets, exc \in Raises \ {"none"} : translation_closed(ws, exc)

(***************************************************************************)
(* Translation cache and DualTranslator: services/dual_translator.py.      *)
(***************************************************************************)
Texts == {"t1", "t2"}

\* json.dumps(sign_sequence, sort_keys=True) of the sign sequences used
SignSequences == {"s1"}

\* An input that is neither a str nor a list: translate() raises ValueError.
BadInput == "<bad>"

Inputs == Texts \cup SignSequences \cup {BadInput}

\* Python's None where a TranslationResult is expected
NoResult ==
    [source |-> "", direction |-> "None", apply_grammar |-> FALSE, duration |-> 0]

\* TranslationCache._generate_key: the digest of "<direction>:<content>"
GenerateKey(content, direction) == <<direction, content>>

CacheKeys(c) == {c[i].key : i \in DOMAIN c}

CacheEntry(c, key) == c[CHOOSE i \in DOMAIN c : c[i].key = key]

CacheDel(c, key) == SelectSeq(c, LAMBDA e : e.key /= key)

\* An expiry test that is off by one.
UnexpiredInclusive(entry, t) == t - entry.timestamp <= Ttl

\* `current_time - timestamp < self.ttl`
Unexpired(entry, t) == t - entry.timestamp < Ttl

\* A lookup that never finds anything.
CacheGetMisses(c, content, direction, t) == [value |-> NoResult, cache |-> c]

\* TranslationCache.get: the returned value (None when absent or expired)
\* and the cache it leaves.
CacheGet(c, content, direction, t) ==
    LET key == GenerateKey(content, direction)
    IN  IF key \in CacheKeys(c)
        THEN IF Unexpired(CacheEntry(c, key), t)
             THEN [value |-> CacheEntry(c, key).result, cache |-> c]
             ELSE [value |-> NoResult, cache |-> CacheDel(c, key)]
        ELSE [value |-> NoResult, cache |-> c]

\* An eviction that takes the entry stored last.
NewestKey(c) == c[Len(c)].key

\* min(self.cache.keys(), key=lambda k: self.cache[k][1]): the first entry,
\* in dict order, with the smallest timestamp.
OldestKey(c) ==
    LET i == CHOOSE j \in DOMAIN c :
                 /\ \A k \in DOMAIN c : c[j].timestamp <= c[k].timestamp
                 /\ \A k \in DOMAIN c :
                        c[k].timestamp = c[j].timestamp => j <= k
    IN  c[i].key

\* self.cache[key] = (result, current_time): a known key keeps its place.
CachePut(c, key, result, t) ==
    LET e == [key |-> key, result |-> result, timestamp |-> t]
    IN  IF key \in CacheKeys(c)
        THEN [i \in DOMAIN c |-> IF c[i].key = key THEN e ELSE c[i]]
        ELSE Append(c, e)

\* TranslationCache.set
CacheSet(c, content, direction, result, t) ==
    LET key  == GenerateKey(content, direction)
        room == IF Len(c) >= CacheSize THEN CacheDel(c, OldestKey(c)) ELSE c
    IN  CachePut(room, key, result, t)

\* The TranslationResult a translation service call builds: d is the time
\* the call took.
Translation(content, direction, apply_grammar, d) ==
    [source |-> content, direction |-> direction,
     apply_grammar |-> apply_grammar, duration |-> d]

\* `if cached_result:` a TranslationResult is true, None is not.
IsResult(v) == v /= NoResult

Bump(st, field) == [st EXCEPT ![field] = @ + 1]

\* DualTranslator.text_to_sign and DualTranslator.sign_to_text, which differ in
\* the direction and the service called. t is time.time() at the call, d the
\* time the translation takes. The value tells what the call did.
CachedTranslate(c, st, content, direction, use_cache, apply_grammar, t, d) ==
    LET got     == IF use_cache
                   THEN CacheGet(c, content, direction, t)
                   ELSE [value |-> NoResult, cache |-> c]
        hit     == use_cache /\ IsResult(got.value)
        result  == Translation(content, direction, apply_grammar, d)
        counted == Bump(Bump(IF use_cache THEN Bump(st, "cache_misses") ELSE st,
                             IF direction = "text_to_sign"
                             THEN "text_to_sign_count"
                             ELSE "sign_to_text_count"),
                        "total_translations")
    IN  IF hit
        THEN [result |-> got.value, hit |-> TRUE, computed |-> FALSE,
              raises |-> FALSE,
              cache |-> got.cache, stats |-> Bump(st, "cache_hits"), now |-> t]
        ELSE [result |-> result, hit |-> FALSE, computed |-> TRUE,
              raises |-> FALSE,
              cache |-> IF use_cache
                        THEN CacheSet(got.cache, content, direction, result, t + d)
                        ELSE got.cache,
              stats |-> counted, now |-> t + d]

\* DualTranslator.translate with direction = 'auto': `raises` stands for the
\* ValueError of an input of no known type.
Translate(c, st, input, use_cache, apply_grammar, t, d) ==
    IF input \in Texts
    THEN CachedTranslate(c, st, input, "text_to_sign", use_cache, apply_grammar, t, d)
    ELSE IF input \in SignSequences
    THEN CachedTranslate(c, st, input, "sign_to_text", use_cache, apply_grammar, t, d)
    ELSE [result |-> NoResult, hit |-> FALSE, computed |-> FALSE,
          raises |-> TRUE,
          cache |-> c, stats |-> st, now |-> t]

\* A loop body without the try/except: the exception leaves batch_translate.
BatchItemPropagates(acc, input, use_cache) ==
    LET r == Translate(acc.cache, acc.stats, input, use_cache, TRUE, acc.now, 0)
    IN  IF r.raises
        THEN [acc EXCEPT !.raised = TRUE]
        ELSE [acc EXCEPT !.results = Append(@, r.result),
                         !.success_count = @ + 1,
                         !.cache = r.cache, !.stats = r.stats, !.now = r.now]

\* One round of the loop of batch_translate: the try/except around translate.
\* `raised` says that an exception left batch_translate.
BatchItem(acc, input, use_cache) ==
    LET r == Translate(acc.cache, acc.stats, input, use_cache, TRUE, acc.now, 0)
    IN  IF r.raises
        THEN [acc EXCEPT !.failure_count = @ + 1]
        ELSE [acc EXCEPT !.results = Append(@, r.result),
                         !.success_count = @ + 1,
                         !.cache = r.cache, !.stats = r.stats, !.now = r.now]

RECURSIVE BatchLoop(_, _, _)
BatchLoop(acc, inputs, use_cache) ==
    IF inputs = <<>> \/ acc.raised THEN acc
    ELSE BatchLoop(BatchItem(acc, Head(inputs), use_cache), Tail(inputs), use_cache)

\* DualTranslator.batch_translate
BatchTranslate(c, st, inputs, use_cache, t) ==
    BatchLoop([results |-> <<>>, success_count |-> 0, failure_count |-> 0,
               total_count |-> Len(inputs), raised |-> FALSE,
               cache |-> c, stats |-> st, now |-> t],
              inputs, use_cache)

Calls == stats.cache_hits + stats.total_translations

\* What the last call was and did.
DtCall(op, content, use_cache, apply_grammar, r) ==
    [op |-> op, content |-> content, use_cache |-> use_cache,
     apply_grammar |-> apply_grammar,
     hit |-> r.hit, computed |-> r.computed,
     \* the result the call put in the cache, and when
     stored |-> IF use_cache /\ r.computed THEN r.result ELSE NoResult,
     stored_at |-> IF use_cache /\ r.computed THEN r.now ELSE 0,
     \* the age of the entry the lookup found, -1 when it found none
     age |-> LET key == GenerateKey(content, op)
             IN  IF use_cache /\ key \in CacheKeys(cache)
                 THEN now - CacheEntry(cache, key).timestamp ELSE -1,
     \* the lookup left no entry under the key
     purged |-> /\ use_cache
                /\ GenerateKey(content, op) \notin CacheKeys(
                       CacheGet(cache, content, op, now).cache),
     \* the call before it had the same arguments, used the cache, computed
     \* its result, and stored it less than a TTL before this lookup
     repeat |-> /\ dt_last.op = op
                /\ dt_last.content = content
                /\ dt_last.apply_grammar = apply_grammar
                /\ dt_last.use_cache /\ use_cache
                /\ dt_last.computed
                /\ now - dt_last.stored_at < Ttl,
     \* the call returned the result the call before it stored
     same_payload |-> r.result = dt_last.stored,
     hits_added |-> r.stats.cache_hits - stats.cache_hits,
     misses_added |-> r.stats.cache_misses - stats.cache_misses,
     total |-> 0, bad |-> 0, successful |-> 0, failed |-> 0, results |-> 0,
     raised |-> FALSE]

NoDtCall ==
    [op |-> "init", content |-> "", use_cache |-> FALSE, apply_grammar |-> FALSE,
     hit |-> FALSE, computed |-> FALSE, stored |-> NoResult, age |-> -1,
     purged |-> FALSE, repeat |-> FALSE, same_payload |-> FALSE, stored_at |-> 0,
     hits_added |-> 0, misses_added |-> 0,
     total |-> 0, bad |-> 0, successful |-> 0, failed |-> 0, results |-> 0,
     raised |-> FALSE]

DtApply(r) ==
    /\ NotDT
    /\ cache' = r.cache
    /\ stats' = r.stats
    /\ now' = r.now

text_to_sign(text, use_cache, apply_grammar, d) ==
    /\ Calls < MaxCalls
    /\ now + d <= MaxTime
    /\ LET r == CachedTranslate(cache, stats, text, "text_to_sign", use_cache,
                                apply_grammar, now, d)
       IN  /\ DtApply(r)
           /\ dt_last' = DtCall("text_to_sign", text, use_cache, apply_grammar, r)

sign_to_text(seq, use_cache, apply_grammar, d) ==
    /\ Calls < MaxCalls
    /\ now + d <= MaxTime
    /\ LET r == CachedTranslate(cache, stats, seq, "sign_to_text", use_cache,
                                apply_grammar, now, d)
       IN  /\ DtApply(r)
           /\ dt_last' = DtCall("sign_to_text", seq, use_cache, apply_grammar, r)

batch_translate(inputs, use_cache) ==
    /\ Calls + Len(inputs) <= MaxCalls
    /\ LET b == BatchTranslate(cache, stats, inputs, use_cache, now)
       IN  /\ DtApply(b)
           /\ dt_last' = [NoDtCall EXCEPT
                  !.op = "batch_translate", !.use_cache = use_cache,
                  !.total = b.total_count,
                  !.bad = Cardinality({i \in DOMAIN inputs : inputs[i] = BadInput}),
                  !.successful = b.success_count,
                  !.failed = b.failure_count, !.results = Len(b.results),
                  !.raised = b.raised]

\* DualTranslator.clear_cache
clear_cache ==
    /\ cache' = <<>>
    /\ dt_last' = [NoDtCall EXCEPT !.op = "clear_cache"]
    /\ UNCHANGED <<stats, now>>
    /\ NotDT

\* time passes
tick ==
    /\ now < MaxTime
    /\ now' = now + 1
    /\ UNCHANGED <<cache, stats, dt_last>>
    /\ NotDT

\* The batches a run can still afford.
Batches ==
    UNION {[1..n -> Inputs] : n \in {m \in 1..MaxBatch : Calls + m <= MaxCalls}}

\* The time a translation takes, in clock ticks.
Durations == 0..1

InitDT ==
    /\ cache = <<>>
    /\ stats = [sign_to_text_count |-> 0, text_to_sign_count |-> 0,
                total_translations |-> 0, cache_hits |-> 0, cache_misses |-> 0]
    /\ now = 0
    /\ dt_last = NoDtCall

NextDT ==
    \/ \E text \in Texts, use_cache \in BOOLEAN, g \in {TRUE}, d \in Durations :
          text_to_sign(text, use_cache, g, d)
    \/ \E seq \in SignSequences, use_cache \in BOOLEAN, g \in {TRUE}, d \in Durations :
          sign_to_text(seq, use_cache, g, d)
    \/ \E inputs \in Batches, use_cache \in BOOLEAN :
          batch_translate(inputs, use_cache)
    \/ clear_cache
    \/ tick

(***************************************************************************)
(* SignRecognitionService: services/sign_recognition.py.                   *)
(***************************************************************************)
\* DEFAULT_CONFIDENCE_THRESHOLD (0.5) and the confidences, in percent
DEFAULT_CONFIDENCE_THRESHOLD == 50

DEFAULT_SMOOTHING_WINDOW == 5

\* What hand_detector.extract_keypoints does with a frame.
Detections == {"hand", "none", "raise"}

\* What self.model.predict gives for the window: the arg-max class and its
\* probability, or an exception.
Classes == {0, 1}

Confidences == {30, 90}

Predictions ==
    [idx : Classes, confidence : Confidences, raises : {FALSE}]
        \cup {[idx |-> 0, confidence |-> 0, raises |-> TRUE]}

\* deque.append with maxlen
DequeAppend(q, x, maxlen) ==
    IF maxlen = 0 THEN <<>>
    ELSE IF Len(q) >= maxlen THEN Append(Tail(q), x)
    ELSE Append(q, x)

\* self.vocab.idx_to_word(predicted_idx). SignVocab.__init__ binds the
\* instance attribute idx_to_word to a dict, which hides the method of that
\* name: the call is a call of the dict and raises TypeError.
VocabIdxToWord(idx) == "TypeError"

\* The labels of a history in the order a dict first sees them, as positions
\* of first occurrence.
FirstAt(h, label) == CHOOSE i \in DOMAIN h :
    /\ h[i].prediction = label
    /\ \A j \in DOMAIN h : h[j].prediction = label => i <= j

Count(h, label) == Cardinality({i \in DOMAIN h : h[i].prediction = label})

\* A smoothing that never overrides the raw prediction.
RawPrediction(h, prediction, confidence) ==
    [history |-> DequeAppend(h, [prediction |-> prediction,
                                 confidence |-> confidence],
                             DEFAULT_SMOOTHING_WINDOW),
     prediction |-> prediction]

\* SignRecognitionService._apply_smoothing: the history it leaves and the
\* prediction it returns.
ApplySmoothing(h, prediction, confidence) ==
    LET h2     == DequeAppend(h, [prediction |-> prediction,
                                  confidence |-> confidence],
                              DEFAULT_SMOOTHING_WINDOW)
        labels == {h2[i].prediction : i \in DOMAIN h2} \ {"None"}
        best   == CHOOSE l \in labels :
                      /\ \A m \in labels : Count(h2, m) <= Count(h2, l)
                      /\ \A m \in labels :
                             Count(h2, m) = Count(h2, l)
                                 => FirstAt(h2, l) <= FirstAt(h2, m)
    IN  [history |-> h2,
         prediction |->
            IF Len(h2) < DEFAULT_SMOOTHING_WINDOW THEN prediction
            ELSE IF labels = {} THEN prediction
            ELSE IF Count(h2, best) >= DEFAULT_SMOOTHING_WINDOW \div 2 THEN best
            ELSE prediction]

\* SignRecognitionService._recognize_from_buffer
RecognizeFromBuffer(h, n, p) ==
    LET failure == [success |-> FALSE, prediction |-> "None", confidence |-> 0,
                    history |-> h, total_predictions |-> n]
        word    == VocabIdxToWord(p.idx)
        smooth  == ApplySmoothing(h, word, p.confidence)
    IN  IF p.raises THEN failure
        ELSE IF p.confidence < DEFAULT_CONFIDENCE_THRESHOLD
        THEN [success |-> TRUE, prediction |-> "None",
              confidence |-> p.confidence, history |-> h,
              total_predictions |-> n]
        ELSE IF word = "TypeError" THEN failure
        ELSE [success |-> TRUE, prediction |-> smooth.prediction,
              confidence |-> p.confidence, history |-> smooth.history,
              total_predictions |-> n + 1]

SrCall(op, hand, recognized, success, prediction, p) ==
    [op |-> op, hand |-> hand, recognized |-> recognized, success |-> success,
     prediction |-> prediction,
     \* the classifier was sure of its class and did not raise
     confident |-> ~p.raises /\ p.confidence >= DEFAULT_CONFIDENCE_THRESHOLD]

NoPrediction == [idx |-> 0, confidence |-> 0, raises |-> TRUE]

NoSrCall == SrCall("init", "none", FALSE, TRUE, "None", NoPrediction)

\* SignRecognitionService.process_frame; p is what the classifier would give
\* for the window.
process_frame(hand, p) ==
    /\ calls < MaxFrames
    /\ calls' = calls + 1
    /\ calls_since_empty' = calls_since_empty + 1
    /\ UNCHANGED <<window_size, buffer_maxlen, resized>>
    /\ NotSR
    /\ IF hand /= "hand"
       THEN \* no keypoints, or the except clause of process_frame
            /\ sr_last' = SrCall("process_frame", hand, FALSE, FALSE, "None",
                                 NoPrediction)
            /\ UNCHANGED <<frame_buffer, prediction_history, total_frames,
                           total_predictions, since_empty>>
       ELSE LET buffer == DequeAppend(frame_buffer, total_frames + 1,
                                      buffer_maxlen)
                r      == RecognizeFromBuffer(prediction_history,
                                              total_predictions, p)
            IN  /\ frame_buffer' = buffer
                /\ total_frames' = total_frames + 1
                /\ since_empty' = since_empty + 1
                /\ IF Len(buffer) < window_size
                   THEN /\ sr_last' = SrCall("process_frame", hand, FALSE, TRUE,
                                             "None", p)
                        /\ UNCHANGED <<prediction_history, total_predictions>>
                   ELSE /\ sr_last' = SrCall("process_frame", hand, TRUE,
                                             r.success, r.prediction, p)
                        /\ prediction_history' = r.history
                        /\ total_predictions' = r.total_predictions

\* SignRecognitionService.reset_buffer
ResetBuffer ==
    /\ frame_buffer' = <<>>
    /\ prediction_history' = <<>>
    /\ since_empty' = 0
    /\ calls_since_empty' = 0

reset_buffer ==
    /\ ResetBuffer
    /\ UNCHANGED resized
    /\ sr_last' = SrCall("reset_buffer", "none", FALSE, TRUE, "None", NoPrediction)
    /\ UNCHANGED <<window_size, buffer_maxlen, total_frames, total_predictions,
                   calls>>
    /\ NotSR

\* SignRecognitionService.set_window_size
set_window_size(size) ==
    /\ IF size > 0
       THEN /\ window_size' = size
            /\ ResetBuffer
            /\ resized' = TRUE
       ELSE UNCHANGED <<window_size, frame_buffer, prediction_history,
                        since_empty, calls_since_empty, resized>>
    /\ sr_last' = SrCall("set_window_size", "none", FALSE, size > 0, "None",
                         NoPrediction)
    /\ UNCHANGED <<buffer_maxlen, total_frames, total_predictions, calls>>
    /\ NotSR

\* SignRecognitionService.__init__ with window_size = w
Construct(w) ==
    /\ window_size = w
    /\ buffer_maxlen = window_size
    /\ frame_buffer = <<>>
    /\ prediction_history = <<>>
    /\ total_frames = 0
    /\ total_predictions = 0
    /\ sr_last = NoSrCall
    /\ calls = 0
    /\ since_empty = 0
    /\ calls_since_empty = 0
    /\ resized = FALSE

InitSR == \E w \in 1..MaxWindow : Construct(w)

NextSR ==
    \/ \E hand \in Detections, p \in Predictions : process_frame(hand, p)
    \/ reset_buffer
    \/ \E size \in 0..MaxWindow : set_window_size(size)

(***************************************************************************)
(* SpeakerDatabase: utils/speaker_db.py.                                   *)
(***************************************************************************)
MaxSpeakers == 2
MaxSamples == 3

\* Embedding vectors. A vector stands for its direction: two vectors are
\* the same after normalisation exactly when their reduced forms are equal.
Embeddings == {<<1, 0>>, <<0, 1>>, <<-1, 0>>}

\* Python's None where a vector is expected
NoEmbedding == <<>>

Abs(n) == IF n < 0 THEN -n ELSE n

RECURSIVE Gcd(_, _)
Gcd(a, b) == IF b = 0 THEN a ELSE Gcd(b, a % b)

\* avg_embedding / norm, left alone when the norm is 0
Normalize(v) ==
    IF v = <<0, 0>> THEN v
    ELSE LET g == Gcd(Abs(v[1]), Abs(v[2])) IN <<v[1] \div g, v[2] \div g>>

RECURSIVE VecSum(_)
VecSum(vs) ==
    IF vs = <<>> THEN <<0, 0>>
    ELSE LET r == VecSum(Tail(vs)) IN <<Head(vs)[1] + r[1], Head(vs)[2] + r[2]>>

\* np.mean(embeddings, axis=0) of a non-empty list, then the normalisation:
\* the mean has the direction of the sum.
NormalizedMean(vs) == Normalize(VecSum(vs))

\* dict operations
DictSet(d, k, v) == [x \in DOMAIN d \cup {k} |-> IF x = k THEN v ELSE d[x]]

DictDel(d, k) == [x \in DOMAIN d \ {k} |-> d[x]]

\* list.remove(x): the first occurrence
ListRemove(l, x) ==
    IF \E i \in DOMAIN l : l[i] = x
    THEN LET i == CHOOSE j \in DOMAIN l :
                      l[j] = x /\ \A m \in DOMAIN l : l[m] = x => j <= m
         IN  SubSeq(l, 1, i - 1) \o SubSeq(l, i + 1, Len(l))
    ELSE l

\* A database value.
Db(speakers, samples, lists, files, sfiles) ==
    [speakers |-> speakers, samples |-> samples, lists |-> lists,
     files |-> files, sfiles |-> sfiles]

CurrentDb ==
    Db(speakers_index, samples_index, speaker_samples, embedding_files,
       speaker_files)

SetDb(db) ==
    /\ speakers_index' = db.speakers
    /\ samples_index' = db.samples
    /\ speaker_samples' = db.lists
    /\ embedding_files' = db.files
    /\ speaker_files' = db.sfiles

\* self.speaker_samples.get(speaker_id, [])
SamplesOf(db, speaker_id) ==
    IF speaker_id \in DOMAIN db.lists THEN db.lists[speaker_id] ELSE <<>>

\* The vectors _load_embedding finds for the ids of a list, in list order.
LoadedEmbeddings(db, sample_ids) ==
    LET found == SelectSeq(sample_ids, LAMBDA s : s \in DOMAIN db.files)
    IN  [i \in DOMAIN found |-> db.files[found[i]]]

\* SpeakerDatabase._update_speaker_embedding
UpdateSpeakerEmbedding(db, speaker_id) ==
    LET sample_ids == SamplesOf(db, speaker_id)
        embeddings == LoadedEmbeddings(db, sample_ids)
        avg        == NormalizedMean(embeddings)
    IN  IF sample_ids = <<>> \/ embeddings = <<>> THEN db
        ELSE IF speaker_id \notin DOMAIN db.speakers THEN db
        ELSE [db EXCEPT !.speakers[speaker_id].embedding = avg,
                        !.sfiles = DictSet(db.sfiles, speaker_id, avg)]

\* SpeakerDatabase.add_sample for a known speaker; `saved` says whether
\* np.save of the sample's embedding file succeeded.
AddSample(db, speaker_id, sample_id, embedding, saved) ==
    LET indexed == [db EXCEPT
            !.samples = DictSet(db.samples, sample_id,
                                [speaker_id |-> speaker_id,
                                 embedding |-> embedding]),
            !.lists[speaker_id] = Append(@, sample_id),
            !.speakers[speaker_id].sample_count = @ + 1]
        stored  == IF saved
                   THEN [indexed EXCEPT
                            !.files = DictSet(indexed.files, sample_id, embedding)]
                   ELSE indexed
    IN  UpdateSpeakerEmbedding(stored, speaker_id)

\* SpeakerDatabase.delete_sample for an indexed sample
DeleteSample(db, sample_id) ==
    LET speaker_id == db.samples[sample_id].speaker_id
        unlinked   == [db EXCEPT !.files = DictDel(db.files, sample_id)]
        detached   == IF speaker_id \in DOMAIN unlinked.lists
                      THEN [unlinked EXCEPT
                               !.lists[speaker_id] = ListRemove(@, sample_id)]
                      ELSE unlinked
        updated    == IF speaker_id \in DOMAIN detached.speakers
                      THEN UpdateSpeakerEmbedding(
                               [detached EXCEPT
                                   !.speakers[speaker_id].sample_count = @ - 1],
                               speaker_id)
                      ELSE detached
    IN  [updated EXCEPT !.samples = DictDel(updated.samples, sample_id)]

\* delete_sample as delete_speaker calls it: False for an unknown id
DeleteSampleIfAny(db, sample_id) ==
    IF sample_id \in DOMAIN db.samples THEN DeleteSample(db, sample_id) ELSE db

\* `for sample_id in sample_ids: self.delete_sample(sample_id)`, where
\* sample_ids is the speaker's own list: the iterator is at position i of the
\* list as the deletions leave it.
RECURSIVE DeleteLoop(_, _, _)
DeleteLoop(db, speaker_id, i) ==
    LET sample_ids == SamplesOf(db, speaker_id)
    IN  IF i > Len(sample_ids) THEN db
        ELSE DeleteLoop(DeleteSampleIfAny(db, sample_ids[i]), speaker_id, i + 1)

\* SpeakerDatabase.delete_speaker for a known speaker
DeleteSpeaker(db, speaker_id) ==
    LET emptied == DeleteLoop(db, speaker_id, 1)
    IN  [emptied EXCEPT !.speakers = DictDel(emptied.speakers, speaker_id),
                        !.lists = DictDel(emptied.lists, speaker_id)]

\* The samples a speaker owns.
Owned(speaker_id) ==
    {s \in DOMAIN samples_index : samples_index[s].speaker_id = speaker_id}

DbCall(op, speaker_id, sample_id, ok) ==
    [op |-> op, speaker |-> speaker_id, sample |-> sample_id, ok |-> ok,
     \* the samples the speaker owned when the call began
     owned |-> Owned(speaker_id)]

NoDbCall == [op |-> "init", speaker |-> 0, sample |-> 0, ok |-> TRUE, owned |-> {}]

\* SpeakerDatabase.create_speaker; uuid4 gives an id never used before
create_speaker ==
    /\ speakers_made < MaxSpeakers
    /\ LET speaker_id == speakers_made + 1
       IN  /\ speakers_index' = DictSet(speakers_index, speaker_id,
                                        [sample_count |-> 0,
                                         embedding |-> NoEmbedding])
           /\ speaker_samples' = DictSet(speaker_samples, speaker_id, <<>>)
           /\ speakers_made' = speaker_id
           /\ db_last' = DbCall("create_speaker", speaker_id, 0, TRUE)
    /\ UNCHANGED <<samples_index, embedding_files, speaker_files, audio_files,
                   samples_made>>
    /\ NotDB

\* SpeakerDatabase.add_sample, on an audio file the caller has written
\* (VoiceCloner writes it under samples_dir before the call)
add_sample(speaker_id, embedding, saved) ==
    /\ samples_made < MaxSamples
    /\ IF speaker_id \notin DOMAIN speakers_index
       THEN \* ValueError, re-raised as RuntimeError
            /\ db_last' = DbCall("add_sample", speaker_id, 0, FALSE)
            /\ UNCHANGED <<speakers_index, samples_index, speaker_samples,
                           embedding_files, speaker_files, audio_files,
                           samples_made>>
       ELSE LET sample_id == samples_made + 1
            IN  /\ SetDb(AddSample(CurrentDb, speaker_id, sample_id,
                                   embedding, saved))
                /\ audio_files' = audio_files \cup {sample_id}
                /\ samples_made' = sample_id
                /\ db_last' = DbCall("add_sample", speaker_id, sample_id, TRUE)
    /\ UNCHANGED speakers_made
    /\ NotDB

\* SpeakerDatabase.delete_sample
delete_sample(sample_id) ==
    /\ IF sample_id \notin DOMAIN samples_index
       THEN /\ db_last' = DbCall("delete_sample", 0, sample_id, FALSE)
            /\ UNCHANGED <<speakers_index, samples_index, speaker_samples,
                           embedding_files, speaker_files>>
       ELSE /\ SetDb(DeleteSample(CurrentDb, sample_id))
            /\ db_last' = DbCall("delete_sample",
                                 samples_index[sample_id].speaker_id,
                                 sample_id, TRUE)
    /\ UNCHANGED <<audio_files, speakers_made, samples_made>>
    /\ NotDB

\* SpeakerDatabase.delete_speaker
delete_speaker(speaker_id) ==
    /\ IF speaker_id \notin DOMAIN speakers_index
       THEN /\ db_last' = DbCall("delete_speaker", speaker_id, 0, FALSE)
            /\ UNCHANGED <<speakers_index, samples_index, speaker_samples,
                           embedding_files, speaker_files>>
       ELSE /\ SetDb(DeleteSpeaker(CurrentDb, speaker_id))
            /\ db_last' = DbCall("delete_speaker", speaker_id, 0, TRUE)
    /\ UNCHANGED <<audio_files, speakers_made, samples_made>>
    /\ NotDB

\* SpeakerDatabase.__init__ on an empty directory
InitDB ==
    /\ speakers_index = <<>>
    /\ samples_index = <<>>
    /\ speaker_samples = <<>>
    /\ embedding_files = <<>>
    /\ speaker_files = <<>>
    /\ audio_files = {}
    /\ speakers_made = 0
    /\ samples_made = 0
    /\ db_last = NoDbCall

NextDB ==
    \/ create_speaker
    \/ \E speaker_id \in 1..MaxSpeakers, e \in Embeddings, saved \in BOOLEAN :
          add_sample(speaker_id, e, saved)
    \/ \E sample_id \in 1..MaxSamples : delete_sample(sample_id)
    \/ \E speaker_id \in 1..MaxSpeakers : delete_speaker(speaker_id)

(***************************************************************************)
(* TranslationCache under concurrent callers: services/dual_translator.py. *)
(* Each thread is inside one of get, set, clear; the statements of a       *)
(* `with self.lock:` block are separate steps.                             *)
(***************************************************************************)
MaxThreads == 2
MaxOps == 2

Threads == 1..MaxThreads

\* A lock that excludes nobody.
LockAlwaysFree(owner, t) == TRUE

\* threading.RLock: free, or held by the thread that asks again
LockFree(owner, t) == owner = 0 \/ owner = t

\* The pc values of a thread that is inside a `with self.lock:` block.
InSection == {"get_in", "get_found", "set_in", "set_room", "clear_in"}

\* The result a caller stores for a content.
CachedValue(content) == Translation(content, "text_to_sign", TRUE, 0)

NoEntry == [key |-> <<>>, result |-> NoResult, timestamp |-> 0]

\* A thread outside every call. Inside one, exp is what the call returns in
\* the sequential run.
IdleThread ==
    [pc |-> "idle", content |-> "", time |-> 0, entry |-> NoEntry,
     exp |-> NoResult]

\* What the last call to return gave, and what it gives in the sequential run.
NoReturn == [thread |-> 0, ret |-> NoResult, exp |-> NoResult]

\* Lines 91-92 and 115-116: the key and time.time(), before the lock.
Call(t, op, content) ==
    /\ thread[t].pc = "idle"
    /\ tc_ops < MaxOps
    /\ tc_ops' = tc_ops + 1
    /\ thread' = [thread EXCEPT ![t] =
                     [pc |-> op, content |-> content, time |-> now,
                      entry |-> NoEntry, exp |-> NoResult]]
    /\ UNCHANGED <<lock, serial, returned, cache, now, stats, dt_last>>
    /\ NotTC

\* `with self.lock:` entered. The sequential run makes the whole call here.
Acquire(t, from, to, seq) ==
    /\ thread[t].pc = from
    /\ LockFree(lock, t)
    /\ lock' = t
    /\ serial' = seq.cache
    /\ thread' = [thread EXCEPT ![t].pc = to, ![t].exp = seq.value]
    /\ UNCHANGED <<tc_ops, returned, cache, now, stats, dt_last>>
    /\ NotTC

\* The block is left and the call returns ret.
Return(t, ret) ==
    /\ lock' = 0
    /\ thread' = [thread EXCEPT ![t] = IdleThread]
    /\ returned' = [thread |-> t, ret |-> ret, exp |-> thread[t].exp]

tc_get(t, content) == Call(t, "get_wait", content)

tc_get_lock(t) ==
    Acquire(t, "get_wait", "get_in",
            CacheGet(serial, thread[t].content, "text_to_sign", thread[t].time))

\* `if key in self.cache: result, timestamp = self.cache[key]`
tc_get_lookup(t) ==
    /\ thread[t].pc = "get_in"
    /\ LET key == GenerateKey(thread[t].content, "text_to_sign")
       IN  IF key \in CacheKeys(cache)
           THEN /\ thread' = [thread EXCEPT ![t].pc = "get_found",
                                            ![t].entry = CacheEntry(cache, key)]
                /\ UNCHANGED <<lock, returned>>
           ELSE Return(t, NoResult)
    /\ UNCHANGED <<tc_ops, serial, cache, now, stats, dt_last>>
    /\ NotTC

\* `if current_time - timestamp < self.ttl: return result`,
\* `else: del self.cache[key]`
tc_get_expiry(t) ==
    /\ thread[t].pc = "get_found"
    /\ IF Unexpired(thread[t].entry, thread[t].time)
       THEN /\ Return(t, thread[t].entry.result)
            /\ UNCHANGED cache
       ELSE /\ cache' = CacheDel(cache, thread[t].entry.key)
            /\ Return(t, NoResult)
    /\ UNCHANGED <<tc_ops, serial, now, stats, dt_last>>
    /\ NotTC

tc_set(t, content) == Call(t, "set_wait", content)

tc_set_lock(t) ==
    Acquire(t, "set_wait", "set_in",
            [value |-> NoResult,
             cache |-> CacheSet(serial, thread[t].content, "text_to_sign",
                                CachedValue(thread[t].content), thread[t].time)])

\* `if len(self.cache) >= self.cache_size:` the oldest entry is deleted
tc_set_evict(t) ==
    /\ thread[t].pc = "set_in"
    /\ cache' = IF Len(cache) >= CacheSize
                THEN CacheDel(cache, OldestKey(cache)) ELSE cache
    /\ thread' = [thread EXCEPT ![t].pc = "set_room"]
    /\ UNCHANGED <<tc_ops, lock, serial, returned, now, stats, dt_last>>
    /\ NotTC

\* `self.cache[key] = (result, current_time)`
tc_set_store(t) ==
    /\ thread[t].pc = "set_room"
    /\ cache' = CachePut(cache, GenerateKey(thread[t].content, "text_to_sign"),
                         CachedValue(thread[t].content), thread[t].time)
    /\ Return(t, NoResult)
    /\ UNCHANGED <<tc_ops, serial, now, stats, dt_last>>
    /\ NotTC

tc_clear(t) == Call(t, "clear_wait", "")

tc_clear_lock(t) ==
    Acquire(t, "clear_wait", "clear_in", [value |-> NoResult, cache |-> <<>>])

\* `self.cache.clear()`
tc_clear_all(t) ==
    /\ thread[t].pc = "clear_in"
    /\ cache' = <<>>
    /\ Return(t, NoResult)
    /\ UNCHANGED <<tc_ops, serial, now, stats, dt_last>>
    /\ NotTC

InitTC ==
    /\ lock = 0
    /\ thread = [t \in Threads |-> IdleThread]
    /\ serial = <<>>
    /\ returned = NoReturn
    /\ tc_ops = 0

\* The callers arrive at a cache that holds one entry, set at time 0.
WarmCache ==
    CacheSet(<<>>, "t1", "text_to_sign", CachedValue("t1"), 0)

InitWarm ==
    /\ cache = WarmCache
    /\ stats = [sign_to_text_count |-> 0, text_to_sign_count |-> 0,
                total_translations |-> 0, cache_hits |-> 0, cache_misses |-> 0]
    /\ now = 0
    /\ dt_last = NoDtCall
    /\ lock = 0
    /\ thread = [t \in Threads |-> IdleThread]
    /\ serial = WarmCache
    /\ returned = NoReturn
    /\ tc_ops = 0

NextTC ==
    \/ \E t \in Threads, content \in Texts : tc_get(t, content)
    \/ \E t \in Threads : tc_get_lock(t)
    \/ \E t \in Threads : tc_get_lookup(t)
    \/ \E t \in Threads : tc_get_expiry(t)
    \/ \E t \in Threads, content \in Texts : tc_set(t, content)
    \/ \E t \in Threads : tc_set_lock(t)
    \/ \E t \in Threads : tc_set_evict(t)
    \/ \E t \in Threads : tc_set_store(t)
    \/ \E t \in Threads : tc_clear(t)
    \/ \E t \in Threads : tc_clear_lock(t)
    \/ \E t \in Threads : tc_clear_all(t)
    \/ tick

(***************************************************************************)
(* SignRecognitionService under concurrent callers:                        *)
(* services/sign_recognition.py. A thread is inside process_frame,         *)
(* reset_buffer or set_window_size.                                        *)
(***************************************************************************)
MaxWorkers == 2
MaxRequests == 3

Workers == 1..MaxWorkers

\* threading.Lock: not reentrant
LockIsFree(owner) == owner = 0

\* The pc values of a worker inside a `with self.lock:` block.
Locked == {"frame_in", "frame_check", "reset_in"}

\* A read or write of a shared field by worker w, and whether w held the lock.
Access(w, field) == [worker |-> w, field |-> field, locked |-> sr_lock = w]

NoAccess == [worker |-> 0, field |-> "none", locked |-> TRUE]

\* The service fields a step of this component does not touch.
SrRest ==
    UNCHANGED <<buffer_maxlen, sr_last, calls, since_empty, calls_since_empty,
                resized>>

NotLK ==
    UNCHANGED <<wsVars, dtVars, dbVars, tcVars, boVars, lruVars, mlVars, asrVars, schVars, capVars,
                extVars>>

\* A worker enters one of the three calls.
Enter(w, pc) ==
    /\ worker[w] = "idle"
    /\ requests < MaxRequests
    /\ requests' = requests + 1
    /\ worker' = [worker EXCEPT ![w] = pc]

\* `with self.lock:`
Take(w, from, to) ==
    /\ worker[w] = from
    /\ LockIsFree(sr_lock)
    /\ sr_lock' = w
    /\ worker' = [worker EXCEPT ![w] = to]

Release(w) ==
    /\ sr_lock' = 0
    /\ worker' = [worker EXCEPT ![w] = "idle"]

lk_process_frame(w) ==
    /\ Enter(w, "frame_wait")
    /\ UNCHANGED <<sr_lock, sr_access, window_size, frame_buffer,
                   prediction_history, total_frames, total_predictions>>
    /\ SrRest /\ NotLK

lk_frame_lock(w) ==
    /\ Take(w, "frame_wait", "frame_in")
    /\ UNCHANGED <<requests, sr_access, window_size, frame_buffer,
                   prediction_history, total_frames, total_predictions>>
    /\ SrRest /\ NotLK

\* extract_keypoints, then the frame is appended and counted
lk_frame_append(w, hand) ==
    /\ worker[w] = "frame_in"
    /\ IF hand /= "hand"
       THEN /\ Release(w)
            /\ UNCHANGED <<sr_access, frame_buffer, total_frames>>
       ELSE /\ frame_buffer' = DequeAppend(frame_buffer, total_frames + 1,
                                           buffer_maxlen)
            /\ total_frames' = total_frames + 1
            /\ sr_access' = Access(w, "frame_buffer")
            /\ worker' = [worker EXCEPT ![w] = "frame_check"]
            /\ UNCHANGED sr_lock
    /\ UNCHANGED <<requests, window_size, prediction_history, total_predictions>>
    /\ SrRest /\ NotLK

\* `if len(self.frame_buffer) < self.window_size`, else the recognition
lk_frame_check(w, p) ==
    /\ worker[w] = "frame_check"
    /\ sr_access' = Access(w, "window_size")
    /\ IF Len(frame_buffer) < window_size
       THEN UNCHANGED <<prediction_history, total_predictions>>
       ELSE LET r == RecognizeFromBuffer(prediction_history,
                                         total_predictions, p)
            IN  /\ prediction_history' = r.history
                /\ total_predictions' = r.total_predictions
    /\ Release(w)
    /\ UNCHANGED <<requests, window_size, frame_buffer, total_frames>>
    /\ SrRest /\ NotLK

lk_reset_buffer(w) ==
    /\ Enter(w, "reset_wait")
    /\ UNCHANGED <<sr_lock, sr_access, window_size, frame_buffer,
                   prediction_history, total_frames, total_predictions>>
    /\ SrRest /\ NotLK

\* set_window_size: `self.window_size = size`, then reset_buffer()
lk_set_window_size(w, size) ==
    /\ IF size > 0
       THEN /\ Enter(w, "reset_wait")
            /\ window_size' = size
            /\ sr_access' = Access(w, "window_size")
       ELSE /\ Enter(w, "idle")
            /\ UNCHANGED <<window_size, sr_access>>
    /\ UNCHANGED <<sr_lock, frame_buffer, prediction_history, total_frames,
                   total_predictions>>
    /\ SrRest /\ NotLK

lk_reset_lock(w) ==
    /\ Take(w, "reset_wait", "reset_in")
    /\ UNCHANGED <<requests, sr_access, window_size, frame_buffer,
                   prediction_history, total_frames, total_predictions>>
    /\ SrRest /\ NotLK

\* the deques are cleared
lk_reset_clear(w) ==
    /\ worker[w] = "reset_in"
    /\ frame_buffer' = <<>>
    /\ prediction_history' = <<>>
    /\ sr_access' = Access(w, "frame_buffer")
    /\ Release(w)
    /\ UNCHANGED <<requests, window_size, total_frames, total_predictions>>
    /\ SrRest /\ NotLK

InitLK ==
    /\ sr_lock = 0
    /\ worker = [w \in Workers |-> "idle"]
    /\ sr_access = NoAccess
    /\ requests = 0

NextLK ==
    \/ \E w \in Workers : lk_process_frame(w)
    \/ \E w \in Workers : lk_frame_lock(w)
    \/ \E w \in Workers, hand \in Detections : lk_frame_append(w, hand)
    \/ \E w \in Workers, p \in Predictions : lk_frame_check(w, p)
    \/ \E w \in Workers : lk_reset_buffer(w)
    \/ \E w \in Workers, size \in 0..MaxWindow : lk_set_window_size(w, size)
    \/ \E w \in Workers : lk_reset_lock(w)
    \/ \E w \in Workers : lk_reset_clear(w)

(***************************************************************************)
(* BatchInferenceOptimizer: utils/performance_optimizer.py.                *)
(***************************************************************************)
MaxBatchSize == 3
MaxPairs == 4

\* The (data, callback) pairs submitted, numbered in order of submission.
Pairs == 1..MaxPairs

NotBO ==
    UNCHANGED <<coreVars, dbVars, tcVars, lkVars, lruVars, mlVars, asrVars, schVars, capVars,
                extVars>>

\* An add_to_batch that hands the full buffer out and keeps it.
AddToBatchKeepsBuffer(buf, size, pair) ==
    LET b == Append(buf, pair)
    IN  IF Len(b) >= size
        THEN [buffer |-> b, batch |-> b, full |-> TRUE]
        ELSE [buffer |-> b, batch |-> <<>>, full |-> FALSE]

\* BatchInferenceOptimizer.add_to_batch: the buffer it leaves and the batch
\* it returns (None when the buffer is not full).
AddToBatch(buf, size, pair) ==
    LET b == Append(buf, pair)
    IN  IF Len(b) >= size
        THEN [buffer |-> <<>>, batch |-> b, full |-> TRUE]
        ELSE [buffer |-> b, batch |-> <<>>, full |-> FALSE]

\* One more release, or one more call, of every pair of a batch.
Counted(count, batch) ==
    [p \in Pairs |-> count[p] + Cardinality({i \in DOMAIN batch : batch[i] = p})]

\* BatchInferenceOptimizer.process_batch: `ok` says that torch.stack and the
\* model did not raise; the outputs are then handed to the callbacks in order.
ProcessBatch(inv, batch, ok) == IF ok THEN Counted(inv, batch) ELSE inv

BoCall(op, full, ok) == [op |-> op, full |-> full, ok |-> ok]

\* add_to_batch(data, callback)
add_to_batch ==
    /\ submitted < MaxPairs
    /\ LET pair == submitted + 1
           r    == AddToBatch(batch_buffer, batch_size, pair)
       IN  /\ submitted' = pair
           /\ batch_buffer' = r.buffer
           /\ released' = Counted(released, r.batch)
           /\ pending' = IF r.full THEN Append(pending, r.batch) ELSE pending
           /\ bo_last' = BoCall("add_to_batch", r.full, TRUE)
    /\ UNCHANGED <<batch_size, invoked, runs_ok>>
    /\ NotBO

\* The caller runs a batch add_to_batch returned through process_batch.
process_batch(ok) ==
    /\ pending /= <<>>
    /\ invoked' = ProcessBatch(invoked, Head(pending), ok)
    /\ pending' = Tail(pending)
    /\ runs_ok' = (runs_ok /\ ok)
    /\ bo_last' = BoCall("process_batch", FALSE, ok)
    /\ UNCHANGED <<batch_size, batch_buffer, released, submitted>>
    /\ NotBO

\* BatchInferenceOptimizer.flush
flush(ok) ==
    /\ IF batch_buffer /= <<>>
       THEN /\ released' = Counted(released, batch_buffer)
            /\ invoked' = ProcessBatch(invoked, batch_buffer, ok)
            /\ runs_ok' = (runs_ok /\ ok)
            /\ batch_buffer' = <<>>
       ELSE UNCHANGED <<released, invoked, runs_ok, batch_buffer>>
    /\ bo_last' = BoCall("flush", FALSE, ok)
    /\ UNCHANGED <<batch_size, pending, submitted>>
    /\ NotBO

\* BatchInferenceOptimizer.__init__ with batch_size = n
BatchConstruct(n) ==
    /\ batch_size = n
    /\ batch_buffer = <<>>
    /\ pending = <<>>
    /\ released = [p \in Pairs |-> 0]
    /\ invoked = [p \in Pairs |-> 0]
    /\ submitted = 0
    /\ runs_ok = TRUE
    /\ bo_last = BoCall("init", FALSE, TRUE)

NextBO ==
    \/ add_to_batch
    \/ \E ok \in BOOLEAN : process_batch(ok)
    \/ \E ok \in BOOLEAN : flush(ok)

(***************************************************************************)
(* LRUCache: utils/performance_optimizer.py.                               *)
(***************************************************************************)
MaxCapacity == 2
MaxTouches == 5

LruKeys == {"k1", "k2", "k3"}

NotLRU ==
    UNCHANGED <<coreVars, dbVars, tcVars, lkVars, boVars, mlVars, asrVars, schVars, capVars,
                extVars>>

\* An OrderedDict is the sequence of its keys, the first inserted first.
\* move_to_end(key)
MoveToEnd(od, key) == Append(SelectSeq(od, LAMBDA k : k /= key), key)

\* od[key] = value: a new key goes to the end, a known one keeps its place
OdSet(od, key) ==
    IF \E i \in DOMAIN od : od[i] = key THEN od ELSE Append(od, key)

Has(od, key) == \E i \in DOMAIN od : od[i] = key

\* A get that leaves the order alone.
LruGetNoTouch(od, key) == od

\* LRUCache.get: the order it leaves
LruGet(od, key) == IF Has(od, key) THEN MoveToEnd(od, key) ELSE od

\* LRUCache.put: the order it leaves and the key popitem(last=False) removed
LruPut(od, key, cap) ==
    LET moved == IF Has(od, key) THEN MoveToEnd(od, key) ELSE od
        set   == OdSet(moved, key)
    IN  IF Len(set) > cap
        THEN [od |-> Tail(set), evicted |-> <<Head(set)>>]
        ELSE [od |-> set, evicted |-> <<>>]

LruCall(op, key, hit, evicted) ==
    [op |-> op, key |-> key, hit |-> hit, evicted |-> evicted,
     \* the keys held when the call began, and when each was last touched
     held |-> {lru[i] : i \in DOMAIN lru}, touched |-> touched]

\* LRUCache.get(key)
lru_get(key) ==
    /\ clock < MaxTouches
    /\ clock' = clock + 1
    /\ lru' = LruGet(lru, key)
    /\ touched' = IF Has(lru, key) THEN [touched EXCEPT ![key] = clock + 1]
                  ELSE touched
    /\ lru_last' = LruCall("get", key, Has(lru, key), <<>>)
    /\ UNCHANGED capacity
    /\ NotLRU

\* LRUCache.put(key, value)
lru_put(key) ==
    /\ clock < MaxTouches
    /\ clock' = clock + 1
    /\ LET r == LruPut(lru, key, capacity)
       IN  /\ lru' = r.od
           /\ lru_last' = LruCall("put", key, Has(lru, key), r.evicted)
    /\ touched' = [touched EXCEPT ![key] = clock + 1]
    /\ UNCHANGED capacity
    /\ NotLRU

\* LRUCache.clear()
lru_clear ==
    /\ lru /= <<>>
    /\ lru' = <<>>
    /\ lru_last' = LruCall("clear", "", FALSE, <<>>)
    /\ UNCHANGED <<capacity, touched, clock>>
    /\ NotLRU

\* LRUCache.__init__ with capacity = n
LruConstruct(n) ==
    /\ capacity = n
    /\ lru = <<>>
    /\ touched = [k \in LruKeys |-> 0]
    /\ clock = 0
    /\ lru_last = [op |-> "init", key |-> "", hit |-> FALSE, evicted |-> <<>>,
                   held |-> {}, touched |-> [k \in LruKeys |-> 0]]

NextLRU ==
    \/ \E key \in LruKeys : lru_get(key)
    \/ \E key \in LruKeys : lru_put(key)
    \/ lru_clear

(***************************************************************************)
(* ModelLoader.download_model: utils/model_loader.py.                      *)
(***************************************************************************)
MaxChunks == 2

ModelNames == {"m1", "m2", "m3"}

NotML ==
    UNCHANGED <<coreVars, dbVars, tcVars, lkVars, boVars, lruVars, asrVars, schVars, capVars,
                extVars>>

\* The file at <cache_dir>/<model_name>.pth: absent, or the chunks written
\* to it and whether the download reached its end.
Absent == [exists |-> FALSE, chunks |-> 0, complete |-> FALSE]

Written(n, complete) == [exists |-> TRUE, chunks |-> n, complete |-> complete]

\* What a download attempt meets:
\*   "ok"       the stream is written to its end
\*   "http"     requests.get or raise_for_status raises a RequestException
\*   "stream"   iter_content raises a RequestException after some chunks
\*   "header"   int(content-length) raises ValueError, before the file is opened
\*   "write"    f.write raises OSError after some chunks
Outcomes == {"ok", "http", "stream", "header", "write"}

\* The exception class the outcome raises.
IsRequestException(outcome) == outcome \in {"http", "stream"}

\* The file as the `with open(model_path, 'wb')` block leaves it.
Streamed(outcome, n) ==
    CASE outcome = "ok" -> Written(MaxChunks, TRUE)
      [] outcome \in {"stream", "write"} -> Written(n, FALSE)
      [] OTHER -> Absent

\* ModelLoader.download_model: the file it leaves, its return value and
\* whether it asked the server.
DownloadModel(file, outcome, n) ==
    IF file.exists
    THEN [file |-> file, result |-> TRUE, requested |-> FALSE]
    ELSE IF outcome = "ok"
    THEN [file |-> Streamed(outcome, n), result |-> TRUE, requested |-> TRUE]
    ELSE IF IsRequestException(outcome)
    THEN \* except requests.RequestException: the file is removed if it exists
         [file |-> Absent, result |-> FALSE, requested |-> TRUE]
    ELSE \* except Exception
         [file |-> Streamed(outcome, n), result |-> FALSE, requested |-> TRUE]

\* download_model(url, model_name)
download_model(model_name, outcome, n) ==
    /\ LET r == DownloadModel(cache_files[model_name], outcome, n)
       IN  /\ cache_files' = [cache_files EXCEPT ![model_name] = r.file]
           /\ ml_last' = [op |-> "download_model", model |-> model_name,
                          cached |-> cache_files[model_name].exists,
                          outcome |-> outcome, result |-> r.result,
                          requested |-> r.requested]
    /\ NotML

\* clear_cache(model_name): the model's file is removed if it exists
ml_clear_cache(model_name) ==
    /\ cache_files' = [cache_files EXCEPT ![model_name] = Absent]
    /\ ml_last' = [op |-> "clear_cache", model |-> model_name,
                   cached |-> cache_files[model_name].exists,
                   outcome |-> "ok", result |-> TRUE, requested |-> FALSE]
    /\ NotML

\* ModelLoader.__init__ on an empty cache directory
InitML ==
    /\ cache_files = [m \in ModelNames |-> Absent]
    /\ ml_last = [op |-> "init", model |-> "", cached |-> FALSE,
                  outcome |-> "ok", result |-> TRUE, requested |-> FALSE]

NextML ==
    \/ \E m \in ModelNames, outcome \in Outcomes, n \in 0..MaxChunks :
          download_model(m, outcome, n)
    \/ \E m \in ModelNames : ml_clear_cache(m)

(***************************************************************************)
(* WhisperASRService.transcribe_stream: services/whisper_asr.py.           *)
(* A sample of the buffer is named by its position in the stream of        *)
(* preprocessed samples.                                                   *)
(***************************************************************************)
MaxChunkLen == 6
MaxStream == 3
MaxTarget == 2

\* ASRConfig.sample_rate, and the rate _preprocess_audio assumes of its input
sample_rate == 16000
current_sr == 48000

NotASR ==
    UNCHANGED <<coreVars, dbVars, tcVars, lkVars, boVars, lruVars, mlVars, schVars, capVars,
                extVars>>

\* librosa.resample: the length of its result, ceil(n * target_sr / orig_sr)
Resample(n, orig_sr, target_sr) == (n * target_sr + orig_sr - 1) \div orig_sr

\* _preprocess_audio: the number of samples it returns for n samples
PreprocessAudio(n, rate) ==
    IF n > 0 /\ current_sr /= rate THEN Resample(n, current_sr, rate) ELSE n

\* np.concatenate([buffer, chunk_processed]): m samples that follow the
\* `seen` samples the stream has delivered
Concatenate(buffer, seen, m) == buffer \o [i \in 1..m |-> seen + i]

\* buffer[:k] and buffer[k:]
Slice(buffer, k) == SubSeq(buffer, 1, IF k < Len(buffer) THEN k ELSE Len(buffer))

Rest(buffer, k) == SubSeq(buffer, k + 1, Len(buffer))

RECURSIVE Flatten(_)
Flatten(slices) ==
    IF slices = <<>> THEN <<>> ELSE Flatten(SubSeq(slices, 1, Len(slices) - 1)) \o slices[Len(slices)]

\* One round of `async for chunk in audio_stream`; ok is whether
\* self.transcribe returns rather than raises.
asr_chunk(n, ok) ==
    /\ asr_pc = "streaming"
    /\ asr_chunks < MaxStream
    /\ LET m == PreprocessAudio(n, asr_rate)
           buffer == Concatenate(asr_buffer, asr_seen, m)
       IN  /\ asr_seen' = asr_seen + m
           /\ asr_chunks' = asr_chunks + 1
           /\ IF Len(buffer) >= asr_target
              THEN /\ asr_buffer' = Rest(buffer, asr_target)
                   /\ asr_transcribed' = Append(asr_transcribed, Slice(buffer, asr_target))
                   /\ asr_pc' = IF ok THEN "streaming" ELSE "raised"
              ELSE /\ asr_buffer' = buffer
                   /\ UNCHANGED <<asr_transcribed, asr_pc>>
    /\ UNCHANGED <<asr_target, asr_rate>>
    /\ NotASR

\* The stream is exhausted: the rest of the buffer is transcribed.
asr_end(ok) ==
    /\ asr_pc = "streaming"
    /\ IF Len(asr_buffer) > 0
       THEN /\ asr_transcribed' = Append(asr_transcribed, asr_buffer)
            /\ asr_pc' = IF ok THEN "ended" ELSE "raised"
       ELSE /\ asr_pc' = "ended"
            /\ UNCHANGED asr_transcribed
    /\ UNCHANGED <<asr_target, asr_rate, asr_buffer, asr_seen, asr_chunks>>
    /\ NotASR

\* transcribe_stream is called on a service whose configuration gives
\* target_length = int(sample_rate * chunk_duration) = target.
TranscribeStream(rate, target) ==
    /\ asr_rate = rate
    /\ asr_target = target
    /\ asr_buffer = <<>>
    /\ asr_transcribed = <<>>
    /\ asr_seen = 0
    /\ asr_chunks = 0
    /\ asr_pc = "streaming"

InitASR == TranscribeStream(sample_rate, MaxTarget)

NextASR ==
    \/ \E n \in 0..MaxChunkLen, ok \in BOOLEAN : asr_chunk(n, ok)
    \/ \E ok \in BOOLEAN : asr_end(ok)

(***************************************************************************)
(* SequenceScheduler: services/text_to_sign.py.                            *)
(* Times and durations are Python floats.  A float is modelled as the      *)
(* non-negative IEEE 754 binary64 value m * 2^e it is: its significand m   *)
(* is a sequence of 53 bits, most significant first, and Zero has none.    *)
(* Sums and differences are rounded to nearest, ties to even.              *)
(***************************************************************************)
MaxActions == 3

Precision == 53

NotSCH ==
    UNCHANGED <<coreVars, dbVars, tcVars, lkVars, boVars, lruVars, mlVars, asrVars, capVars,
                extVars>>

Zeros(k) == [i \in 1..k |-> 0]

Last(b) == b[Len(b)]

\* The bits of a natural number, most significant first.
RECURSIVE Bits(_)
Bits(n) == IF n = 0 THEN <<>> ELSE Bits(n \div 2) \o <<n % 2>>

\* b without its leading zeros
Strip(b) ==
    IF \A i \in 1..Len(b) : b[i] = 0
    THEN <<>>
    ELSE SubSeq(b, CHOOSE i \in 1..Len(b) : b[i] = 1 /\ \A j \in 1..(i - 1) : b[j] = 0,
                Len(b))

\* b with leading zeros to length n
Pad(b, n) == Zeros(n - Len(b)) \o b

\* The first place below place i where x and y differ (same = FALSE) or
\* agree (same = TRUE), or 0 when there is none
Below(x, y, i, same) ==
    IF \A k \in (i + 1)..Len(x) : (x[k] = y[k]) /= same
    THEN 0
    ELSE CHOOSE k \in (i + 1)..Len(x) :
             /\ (x[k] = y[k]) = same
             /\ \A j \in (i + 1)..(k - 1) : (x[j] = y[j]) /= same

\* The carry of x + y + c into place i: the places below i pass a carry on
\* while their bits differ, and the first place where they agree makes it
Carry(x, y, c, i) ==
    LET k == Below(x, y, i, TRUE) IN IF k = 0 THEN c ELSE x[k]

\* The borrow of x - y - c from place i: the places below i pass a borrow
\* on while their bits agree, and the first place where they differ makes it
Borrow(x, y, c, i) ==
    LET k == Below(x, y, i, FALSE) IN IF k = 0 THEN c ELSE y[k]

\* a + b + c on bit sequences
AddBits(a, b, c) ==
    LET n == IF Len(a) < Len(b) THEN Len(b) ELSE Len(a)
        x == Pad(a, n)
        y == Pad(b, n)
        s == [i \in 1..n |-> (x[i] + y[i] + Carry(x, y, c, i)) % 2]
    IN  IF Carry(x, y, c, 0) = 1 THEN <<1>> \o s ELSE s

\* a - b - c on bit sequences, for a >= b + c
SubBits(a, b, c) ==
    LET y == Pad(b, Len(a))
    IN  [i \in 1..Len(a) |-> (a[i] + y[i] + Borrow(a, y, c, i)) % 2]

\* 2^j modulo 10
PowMod10(j) == IF j = 0 THEN 1 ELSE <<2, 4, 8, 6>>[((j - 1) % 4) + 1]

\* The j-th binary digit after the point of n / 10: long division leaves the
\* remainder n * 2^(j-1) modulo 10 before it
FractionBit(n, j) == (2 * ((n * PowMod10(j - 1)) % 10)) \div 10

Zero == [m |-> <<>>, e |-> 0]

\* The float nearest to bits * 2^e (plus a fraction of its last place when
\* sticky), ties to even.
Round(bits, e, sticky) ==
    LET b == Strip(bits)
        n == Len(b)
    IN  IF n = 0 THEN Zero
        ELSE IF n <= Precision
        THEN [m |-> b \o Zeros(Precision - n), e |-> e - (Precision - n)]
        ELSE LET keep == SubSeq(b, 1, Precision)
                 guard == b[Precision + 1]
                 low == sticky \/ \E i \in (Precision + 2)..n : b[i] = 1
                 up == guard = 1 /\ (low \/ Last(keep) = 1)
                 m == IF up THEN AddBits(keep, <<>>, 1) ELSE keep
             IN  IF Len(m) > Precision
                 THEN [m |-> SubSeq(m, 1, Precision), e |-> e + (n - Precision) + 1]
                 ELSE [m |-> m, e |-> e + (n - Precision)]

\* The float a decimal literal of n tenths denotes (0.8 is Literal(8)).
Literal(n) ==
    LET k == Precision + 8
    IN  Round(Bits(n \div 10) \o [j \in 1..k |-> FractionBit(n, j)], -k,
              (n * PowMod10(k)) % 10 /= 0)

\* The significands of x and y over their smaller exponent
Aligned(x, y) ==
    LET e == IF x.e < y.e THEN x.e ELSE y.e
    IN  [a |-> x.m \o Zeros(x.e - e), b |-> y.m \o Zeros(y.e - e), e |-> e]

\* x + y
FloatAdd(x, y) ==
    IF x = Zero THEN y
    ELSE IF y = Zero THEN x
    ELSE LET al == Aligned(x, y)
         IN  Round(AddBits(al.a, al.b, 0), al.e, FALSE)

\* x - y for x >= y
FloatSub(x, y) ==
    IF y = Zero THEN x
    ELSE LET al == Aligned(x, y)
         IN  Round(SubBits(al.a, al.b, 0), al.e, FALSE)

\* The durations of the action templates, the start times and the pause of
\* the scheduler, in tenths of a second as their literals are written.
ActionDurations == {8, 10, 12}

StartTimes == {0, 5}

PauseDuration == 3

\* SignAction(duration=...): start_time and end_time take their defaults
SignAction(duration) ==
    [duration |-> Literal(duration), start_time |-> Literal(0), end_time |-> Literal(10)]

\* SequenceScheduler.schedule: the loop over actions from position i with
\* current_time
RECURSIVE ScheduleFrom(_, _, _, _)
ScheduleFrom(actions, i, current_time, pause) ==
    IF i > Len(actions)
    THEN actions
    ELSE LET end_time == FloatAdd(current_time, actions[i].duration)
             placed == [actions EXCEPT ![i].start_time = current_time,
                                       ![i].end_time = end_time]
         IN  ScheduleFrom(placed, i + 1, FloatAdd(end_time, pause), pause)

ScheduleNoPause(actions, start_time, pause) == ScheduleFrom(actions, 1, start_time, Zero)

Schedule(actions, start_time, pause) == ScheduleFrom(actions, 1, start_time, pause)

\* SequenceScheduler.get_total_duration
GetTotalDuration(actions) ==
    IF actions = <<>>
    THEN Zero
    ELSE FloatSub(actions[Len(actions)].end_time, actions[1].start_time)

NoSchCall == [op |-> "init", start_time |-> Zero, total |-> Zero]

\* ActionGenerator.generate_action: one more action of the sequence
generate_action(duration) ==
    /\ Len(sch_actions) < MaxActions
    /\ sch_actions' = Append(sch_actions, SignAction(duration))
    /\ sch_last' = [NoSchCall EXCEPT !.op = "generate_action"]
    /\ UNCHANGED pause_duration
    /\ NotSCH

\* scheduler.schedule(actions, start_time)
schedule(start_time) ==
    /\ sch_actions' = Schedule(sch_actions, Literal(start_time), pause_duration)
    /\ sch_last' = [NoSchCall EXCEPT !.op = "schedule", !.start_time = Literal(start_time)]
    /\ UNCHANGED pause_duration
    /\ NotSCH

\* scheduler.get_total_duration(actions)
get_total_duration ==
    /\ sch_last' = [sch_last EXCEPT !.op = "get_total_duration",
                                    !.total = GetTotalDuration(sch_actions)]
    /\ UNCHANGED <<sch_actions, pause_duration>>
    /\ NotSCH

\* SequenceScheduler(pause_duration) and an empty list of actions
InitSCH ==
    /\ pause_duration = Literal(PauseDuration)
    /\ sch_actions = <<>>
    /\ sch_last = NoSchCall

NextSCH ==
    \/ \E d \in ActionDurations : generate_action(d)
    \/ \E t \in StartTimes : schedule(t)
    \/ get_total_duration

(***************************************************************************)
(* TranslationCache called directly, one call after the other:             *)
(* services/dual_translator.py.                                            *)
(***************************************************************************)
NotCAP ==
    UNCHANGED <<wsVars, srVars, dbVars, tcVars, lkVars, boVars, lruVars, mlVars, asrVars, schVars, stats, dt_last,
                extVars>>

Directions == {"text_to_sign", "sign_to_text"}

\* What the last call was, on which key, when, and the cache it found.
CacheCall(op, key) == [op |-> op, key |-> key, at |-> now, before |-> cache]

\* cache.set(content, direction, result)
cache_set(content, direction) ==
    /\ cache' = CacheSet(cache, content, direction,
                         Translation(content, direction, TRUE, 0), now)
    /\ cap_last' = CacheCall("set", GenerateKey(content, direction))
    /\ UNCHANGED now
    /\ NotCAP

\* cache.get(content, direction)
cache_get(content, direction) ==
    /\ cache' = CacheGet(cache, content, direction, now).cache
    /\ cap_last' = CacheCall("get", GenerateKey(content, direction))
    /\ UNCHANGED now
    /\ NotCAP

\* cache.clear()
cache_clear ==
    /\ cache' = <<>>
    /\ cap_last' = CacheCall("clear", <<>>)
    /\ UNCHANGED now
    /\ NotCAP

InitCAP == cap_last = [op |-> "init", key |-> <<>>, at |-> 0, before |-> <<>>]

NextCAP ==
    \/ \E content \in Texts, direction \in Directions : cache_set(content, direction)
    \/ \E content \in Texts, direction \in Directions : cache_get(content, direction)
    \/ cache_clear
    \/ tick

(***************************************************************************)
(* SignRecognitionService._apply_smoothing, called with the words the      *)
(* vocabulary yields.                                                      *)
(***************************************************************************)

\* The words a recognition can yield.
Words == {"hello", "thanks", "you"}

NotSM ==
    UNCHANGED <<wsVars, dtVars, libVars, ExtButSM, window_size, buffer_maxlen,
                frame_buffer, total_frames, total_predictions, sr_last, calls,
                since_empty, calls_since_empty, resized>>

InitSM == sm_last = [op |-> "init", raw |-> "None", returned |-> "None"]

\* self._apply_smoothing(prediction, confidence)
apply_smoothing(prediction, confidence) ==
    LET smooth == ApplySmoothing(prediction_history, prediction, confidence)
    IN  /\ prediction_history' = smooth.history
        /\ sm_last' = [op |-> "smooth", raw |-> prediction,
                       returned |-> smooth.prediction]
        /\ NotSM

NextSM == \E prediction \in Words, confidence \in Confidences :
              apply_smoothing(prediction, confidence)

(***************************************************************************)
(* SequenceSmoother (services/sign_to_text.py).  Times and confidences are *)
(* counted in quarters (0.25 is exact in binary floating point, so sums    *)
(* and differences of the inputs are exact); the thresholds are in tenths  *)
(* and compared as fractions.                                              *)
(***************************************************************************)

\* The most gestures in one list.
MaxGestures == 3

\* self.confidence_threshold and self.min_duration, in tenths.
confidence_threshold == 6
min_duration == 3

SignIds == {"A", "B"}

\* gesture.confidence < self.confidence_threshold
BelowFloor(gesture) == 10 * gesture.confidence < 4 * confidence_threshold

\* A recognised gesture: 0.5 or 0.75 confident, lasting 0.25 or 0.5 s.
SignGesture(sign_id, confidence, timestamp, length) ==
    [sign_id |-> sign_id, confidence |-> confidence, timestamp |-> timestamp,
     start_time |-> timestamp, end_time |-> timestamp + length]

\* The lists a recognition produces: in time order, each gesture 0.25 s or
\* 1 s after the one before.
RECURSIVE GestureLists(_)
GestureLists(n) ==
    IF n = 0 THEN {<<>>}
    ELSE LET shorter == GestureLists(n - 1)
         IN  shorter \cup
             {gs \o <<SignGesture(id, c, (IF gs = <<>> THEN 0
                                          ELSE gs[Len(gs)].timestamp + gap), len)>> :
                 gs \in {g \in shorter : Len(g) = n - 1},
                 id \in SignIds, c \in {2, 3}, gap \in {1, 4}, len \in {1, 2}}

RECURSIVE ConfidenceSum(_)
ConfidenceSum(gestures) ==
    IF gestures = <<>> THEN 0
    ELSE gestures[1].confidence + ConfidenceSum(Tail(gestures))

\* SequenceSmoother._merge_gestures; the mean confidence is kept as the sum
\* and the count it divides.
MergeGestures(gestures) ==
    [sign_id |-> gestures[1].sign_id,
     confidence |-> [sum |-> ConfidenceSum(gestures), n |-> Len(gestures)],
     timestamp |-> gestures[1].timestamp,
     start_time |-> gestures[1].start_time,
     end_time |-> gestures[Len(gestures)].end_time]

\* The inner while loop: the index j at which the run starting at i stops.
RunEnd(gestures, i) ==
    CHOOSE j \in (i + 1)..(Len(gestures) + 1) :
        /\ \A k \in (i + 1)..(j - 1) :
               /\ gestures[k].sign_id = gestures[i].sign_id
               /\ gestures[k].timestamp - gestures[i].timestamp < 4
        /\ j <= Len(gestures) =>
               ~ /\ gestures[j].sign_id = gestures[i].sign_id
                 /\ gestures[j].timestamp - gestures[i].timestamp < 4

\* The outer while loop from index i: the merged gestures, each with the
\* positions of the input it was merged from.
RECURSIVE SmoothFrom(_, _)
SmoothFrom(gestures, i) ==
    IF i > Len(gestures) THEN <<>>
    ELSE IF BelowFloor(gestures[i]) THEN SmoothFrom(gestures, i + 1)
    ELSE LET j        == RunEnd(gestures, i)
             similar  == SubSeq(gestures, i, j - 1)
             duration == similar[Len(similar)].end_time - similar[1].start_time
         IN  IF 10 * duration >= 4 * min_duration
             THEN <<[gesture |-> MergeGestures(similar), members |-> i..(j - 1)]>>
                      \o SmoothFrom(gestures, j)
             ELSE SmoothFrom(gestures, i + 1)

\* SequenceSmoother.smooth_sequence
SmoothSequence(gestures) == SmoothFrom(gestures, 1)

NotSS == UNCHANGED <<coreVars, libVars, ExtButSS>>

InitSS == ss_last = [op |-> "init", gestures |-> <<>>, smoothed |-> <<>>]

smooth_sequence(gestures) ==
    /\ ss_last' = [op |-> "smooth", gestures |-> gestures,
                   smoothed |-> SmoothSequence(gestures)]
    /\ NotSS

NextSS == \E gestures \in GestureLists(MaxGestures) : smooth_sequence(gestures)

(***************************************************************************)
(* ConnectionManager.broadcast one send at a time (api/config.py).  Each   *)
(* `await connection.send_json` suspends the broadcast and lets the other  *)
(* connection handlers run.  The dict is its entry array: an insertion of  *)
(* a new key appends an entry, a deletion leaves a dead entry behind, and  *)
(* the items() iterator walks the array by position.  A dict of up to 5    *)
(* insertions is never compacted.                                          *)
(***************************************************************************)

\* The most connect calls (each brings a socket of its own).
MaxConnects == 3

BiIds == {"a", "b"}

LiveSlots(slots) == {i \in DOMAIN slots : slots[i].live}

SlotKeys(slots) == {slots[i].id : i \in LiveSlots(slots)}

\* active_connections[client_id] = websocket
SlotSet(slots, id, ws) ==
    IF id \in SlotKeys(slots)
    THEN [i \in DOMAIN slots |->
            IF slots[i].live /\ slots[i].id = id
            THEN [id |-> id, ws |-> ws, live |-> TRUE] ELSE slots[i]]
    ELSE Append(slots, [id |-> id, ws |-> ws, live |-> TRUE])

\* del active_connections[client_id]
SlotDel(slots, id) ==
    [i \in DOMAIN slots |->
        IF slots[i].id = id THEN [slots[i] EXCEPT !.live = FALSE] ELSE slots[i]]

\* ConnectionManager.disconnect on the entry array
SlotDisconnect(reg, id) ==
    IF id \in SlotKeys(reg.conns)
    THEN Reg(SlotDel(reg.conns, id), reg.count - 1)
    ELSE reg

NoIteration ==
    [pc |-> "idle", pos |-> 0, used |-> 0, exclude |-> NoId, client_id |-> NoId,
     attempted |-> {}, disconnected |-> <<>>, stayed |-> {}, made |-> 0]

\* The second loop of broadcast: disconnect every client whose send raised.
RECURSIVE Cleanup(_, _)
Cleanup(reg, disconnected) ==
    IF disconnected = <<>> THEN reg
    ELSE Cleanup(SlotDisconnect(reg, disconnected[1]), Tail(disconnected))

\* The for statement asks the items() iterator for the next entry after
\* position `from`: the iterator raises RuntimeError when the dict's size is
\* not the size it was created with; entries of the excluded id are passed
\* over by `continue`; the first other live entry is sent the message; when
\* none is left the loop ends and the failed clients are disconnected.
Advance(reg, b, from) ==
    LET slots == reg.conns
        rest  == {i \in LiveSlots(slots) :
                     i > from /\ ~Skipped(slots[i].id, b.exclude)}
        i     == CHOOSE k \in rest : \A m \in rest : k <= m
    IN  IF Cardinality(LiveSlots(slots)) # b.used
        THEN [reg |-> reg, b |-> [b EXCEPT !.pc = "raised"]]
        ELSE IF rest = {}
        THEN [reg |-> Cleanup(reg, b.disconnected),
              b |-> [b EXCEPT !.pc = "done"]]
        ELSE [reg |-> reg,
              b |-> [b EXCEPT !.pc = "sending", !.pos = i,
                              !.client_id = slots[i].id,
                              !.attempted = @ \cup {slots[i].ws}]]

NotBI == UNCHANGED <<coreVars, libVars, ExtButBI>>

InitBI ==
    /\ bi_slots = <<>>
    /\ bi_count = 0
    /\ bi = NoIteration

BiSet(step) ==
    /\ bi_slots' = step.reg.conns
    /\ bi_count' = step.reg.count
    /\ bi' = step.b

\* manager.broadcast(message, exclude_client_id) up to its first send
bi_broadcast(exclude) ==
    /\ bi.pc # "sending"
    /\ BiSet(Advance(Reg(bi_slots, bi_count),
                     [NoIteration EXCEPT
                         !.used = Cardinality(LiveSlots(bi_slots)),
                         !.exclude = exclude,
                         !.stayed = {bi_slots[i].ws : i \in LiveSlots(bi_slots)},
                         !.made = bi.made],
                     0))
    /\ NotBI

\* The pending send_json returns or raises, and the loop goes on to its next
\* send or to its end.
bi_send_json(fails) ==
    /\ bi.pc = "sending"
    /\ BiSet(Advance(Reg(bi_slots, bi_count),
                     [bi EXCEPT !.disconnected =
                         IF fails THEN Append(@, bi.client_id) ELSE @],
                     bi.pos))
    /\ NotBI

\* Another handler: manager.connect(websocket, client_id) with a new socket
bi_connect(id) ==
    /\ bi.made < MaxConnects
    /\ bi_slots' = SlotSet(bi_slots, id, bi.made + 1)
    /\ bi_count' = bi_count + 1
    /\ bi' = [bi EXCEPT !.made = @ + 1,
                        !.stayed = @ \ {bi_slots[i].ws :
                                          i \in {k \in LiveSlots(bi_slots) :
                                                    bi_slots[k].id = id}}]
    /\ NotBI

\* Another handler: manager.disconnect(client_id)
bi_disconnect(id) ==
    /\ bi_slots' = SlotDisconnect(Reg(bi_slots, bi_count), id).conns
    /\ bi_count' = SlotDisconnect(Reg(bi_slots, bi_count), id).count
    /\ bi' = [bi EXCEPT !.stayed = @ \ {bi_slots[i].ws :
                                          i \in {k \in LiveSlots(bi_slots) :
                                                    bi_slots[k].id = id}}]
    /\ NotBI

NextBI ==
    \/ \E exclude \in BiIds \cup {NoId} : bi_broadcast(exclude)
    \/ \E fails \in BOOLEAN : bi_send_json(fails)
    \/ \E id \in BiIds : bi_connect(id)
    \/ \E id \in BiIds : bi_disconnect(id)

(***************************************************************************)
(* DualTranslator.text_to_sign with all of its arguments                   *)
(* (services/dual_translator.py).                                          *)
(***************************************************************************)

\* rhythm: None or a pattern of SequenceScheduler.add_rhythm
Rhythms == {"None", "fast", "slow"}

\* The TranslationResult built from text_to_sign_service.translate(text,
\* apply_grammar=..., rhythm=...): the sequence in its metadata records
\* grammar_applied and rhythm, and its actions depend on both.
SignTranslation(text, apply_grammar, rhythm, d) ==
    [source |-> text, direction |-> "text_to_sign",
     apply_grammar |-> apply_grammar, rhythm |-> rhythm, duration |-> d]

\* DualTranslator.text_to_sign
TextToSign(c, st, text, use_cache, apply_grammar, rhythm, t, d) ==
    LET got    == IF use_cache
                  THEN CacheGet(c, text, "text_to_sign", t)
                  ELSE [value |-> NoResult, cache |-> c]
        hit    == use_cache /\ IsResult(got.value)
        result == SignTranslation(text, apply_grammar, rhythm, d)
        missed == IF use_cache THEN Bump(st, "cache_misses") ELSE st
    IN  IF hit
        THEN [result |-> got.value, hit |-> TRUE, cache |-> got.cache,
              stats |-> Bump(st, "cache_hits"), now |-> t]
        ELSE [result |-> result, hit |-> FALSE,
              cache |-> IF use_cache
                        THEN CacheSet(got.cache, text, "text_to_sign", result, t + d)
                        ELSE got.cache,
              stats |-> Bump(Bump(missed, "text_to_sign_count"),
                             "total_translations"),
              now |-> t + d]

NotTG == UNCHANGED <<wsVars, srVars, libVars, ExtButTG, dt_last>>

InitTG ==
    tg_last = [op |-> "init", text |-> "", apply_grammar |-> FALSE,
               rhythm |-> "None", hit |-> FALSE, result |-> NoResult]

text_to_sign_rhythm(text, use_cache, apply_grammar, rhythm, d) ==
    /\ Calls < MaxCalls
    /\ now + d <= MaxTime
    /\ LET r == TextToSign(cache, stats, text, use_cache, apply_grammar,
                           rhythm, now, d)
       IN  /\ cache' = r.cache
           /\ stats' = r.stats
           /\ now' = r.now
           /\ tg_last' = [op |-> "text_to_sign", text |-> text,
                          apply_grammar |-> apply_grammar, rhythm |-> rhythm,
                          hit |-> r.hit, result |-> r.result]
    /\ NotTG

\* time.time() moves on
tg_tick ==
    /\ now < MaxTime
    /\ now' = now + 1
    /\ UNCHANGED <<cache, stats, tg_last>>
    /\ NotTG

NextTG ==
    \/ \E text \in Texts, use_cache \in BOOLEAN, apply_grammar \in BOOLEAN,
          rhythm \in Rhythms, d \in Durations :
          text_to_sign_rhythm(text, use_cache, apply_grammar, rhythm, d)
    \/ tg_tick

(***************************************************************************)
(* SignVocab (utils/sign_vocab.py): the two dicts, as functions.  Words    *)
(* are written in pinyin; add_word is called without a category.           *)
(***************************************************************************)

\* SignVocab.DEFAULT_VOCAB; word k of the class attribute is DEFAULT_VOCAB[k + 1].
DEFAULT_VOCAB ==
    <<"nihao", "xiexie", "duibuqi", "zaijian", "shi", "bushi", "qing",
      "bukeqi", "zaoshanghao", "wanshanghao", "kaixin", "nanguo", "haode",
      "shenme", "weishenme", "bangzhu", "ai", "xihuan", "buxihuan", "dengdeng",
      "chifan", "heshui", "shuijiao", "xuexi", "gongzuo", "jiaren", "pengyou",
      "yisheng", "laoshi", "anquan", "weixian">>

\* The words the callers add and remove: two default ones (the first and the
\* last) and two new ones.
VocabWords == {"nihao", "weixian", "shouyu", "fanyi"}

\* The most add_word and remove_word calls.
MaxVocabCalls == 5

\* SignVocab.add_word(word)
AddWord(w2i, i2w, word) ==
    LET new_idx == Cardinality(DOMAIN i2w)
    IN  IF word \in DOMAIN w2i
        THEN [word_to_idx |-> w2i, idx_to_word |-> i2w, returned |-> w2i[word]]
        ELSE [word_to_idx |-> DictSet(w2i, word, new_idx),
              idx_to_word |-> DictSet(i2w, new_idx, word),
              returned |-> new_idx]

\* SignVocab.remove_word(word): returned is True, False, or -1 for the
\* KeyError of `del self.idx_to_word[idx]`, raised after the word has left
\* word_to_idx.
RemoveWord(w2i, i2w, word) ==
    IF word \notin DOMAIN w2i
    THEN [word_to_idx |-> w2i, idx_to_word |-> i2w, returned |-> 0]
    ELSE IF w2i[word] \notin DOMAIN i2w
    THEN [word_to_idx |-> DictDel(w2i, word), idx_to_word |-> i2w,
          returned |-> -1]
    ELSE [word_to_idx |-> DictDel(w2i, word),
          idx_to_word |-> DictDel(i2w, w2i[word]), returned |-> 1]

NotSV == UNCHANGED <<coreVars, libVars, ExtButSV>>

\* SignVocab() with no vocab_path: _load_default_vocab
InitSV ==
    /\ idx_to_word = [k \in 0..(Len(DEFAULT_VOCAB) - 1) |-> DEFAULT_VOCAB[k + 1]]
    /\ word_to_idx = [w \in Range(DEFAULT_VOCAB) |->
                         (CHOOSE k \in DOMAIN DEFAULT_VOCAB : DEFAULT_VOCAB[k] = w) - 1]
    /\ sv_last = [op |-> "init", word |-> "", returned |-> 0, calls |-> 0]

add_word(word) ==
    LET r == AddWord(word_to_idx, idx_to_word, word)
    IN  /\ sv_last.calls < MaxVocabCalls
        /\ word_to_idx' = r.word_to_idx
        /\ idx_to_word' = r.idx_to_word
        /\ sv_last' = [op |-> "add_word", word |-> word, returned |-> r.returned,
                       calls |-> sv_last.calls + 1]
        /\ NotSV

remove_word(word) ==
    LET r == RemoveWord(word_to_idx, idx_to_word, word)
    IN  /\ sv_last.calls < MaxVocabCalls
        /\ word_to_idx' = r.word_to_idx
        /\ idx_to_word' = r.idx_to_word
        /\ sv_last' = [op |-> "remove_word", word |-> word,
                       returned |-> r.returned, calls |-> sv_last.calls + 1]
        /\ NotSV

NextSV ==
    \/ \E word \in VocabWords : add_word(word)
    \/ \E word \in VocabWords : remove_word(word)

(***************************************************************************)
(* BatchInferenceOptimizer with callbacks that call the optimizer again    *)
(* (utils/performance_optimizer.py).  One thread; self.lock is a           *)
(* threading.Lock, which the thread that holds it cannot take again.       *)
(***************************************************************************)

\* The batch size and the most add_to_batch calls of the application.
FlushBatchSize == 2
MaxSubmits == 4

\* What a completion callback does with its output: nothing with the
\* optimizer, or a call of add_to_batch, or a call of flush, on the optimizer.
CallbackKinds == {"plain", "adds", "flushes"}

Frame(fn, pc, batch, cb) == [fn |-> fn, pc |-> pc, batch |-> batch, cb |-> cb]

Top == fl_stack[Len(fl_stack)]

Pop == SubSeq(fl_stack, 1, Len(fl_stack) - 1)

\* The stack with its innermost frame replaced
Replace(frame) == Append(Pop, frame)

NotFL == UNCHANGED <<coreVars, libVars, ExtButFL>>

InitFL ==
    /\ fl_buffer = <<>>
    /\ fl_lock = FALSE
    /\ fl_stack = <<>>
    /\ fl_submitted = 0

\* The application calls optimizer.add_to_batch(data, callback)
fl_call_add(cb) ==
    /\ fl_stack = <<>>
    /\ fl_submitted < MaxSubmits
    /\ fl_submitted' = fl_submitted + 1
    /\ fl_stack' = <<Frame("add_to_batch", "acquire", <<>>, cb)>>
    /\ UNCHANGED <<fl_buffer, fl_lock>>
    /\ NotFL

\* The application calls optimizer.flush(model)
fl_call_flush ==
    /\ fl_stack = <<>>
    /\ fl_stack' = <<Frame("flush", "acquire", <<>>, "plain")>>
    /\ UNCHANGED <<fl_buffer, fl_lock, fl_submitted>>
    /\ NotFL

\* add_to_batch from `with self.lock:` to its return. The application hands
\* a returned batch to process_batch; a callback drops it.
fl_add_to_batch ==
    /\ fl_stack # <<>>
    /\ Top.fn = "add_to_batch"
    /\ ~fl_lock
    /\ LET r == AddToBatch(fl_buffer, FlushBatchSize, Top.cb)
       IN  /\ fl_buffer' = r.buffer
           /\ fl_stack' = IF r.full /\ Len(fl_stack) = 1
                          THEN <<Frame("process_batch", "callbacks", r.batch, "plain")>>
                          ELSE Pop
    /\ UNCHANGED <<fl_lock, fl_submitted>>
    /\ NotFL

\* flush takes the lock; with an empty buffer it releases it and returns,
\* otherwise it empties the buffer and enters process_batch with the lock held.
fl_flush_acquire ==
    /\ fl_stack # <<>>
    /\ Top.fn = "flush" /\ Top.pc = "acquire"
    /\ ~fl_lock
    /\ IF fl_buffer = <<>>
       THEN /\ fl_stack' = Pop
            /\ UNCHANGED <<fl_lock, fl_buffer>>
       ELSE /\ fl_lock' = TRUE
            /\ fl_buffer' = <<>>
            /\ fl_stack' = Replace(Frame("flush", "callbacks", fl_buffer, "plain"))
    /\ UNCHANGED fl_submitted
    /\ NotFL

\* process_batch: torch.stack or the model raises and no callback runs
fl_inference_fails ==
    /\ fl_stack # <<>>
    /\ Top.pc = "callbacks"
    /\ Top.batch # <<>>
    /\ fl_stack' = Replace([Top EXCEPT !.batch = <<>>])
    /\ UNCHANGED <<fl_buffer, fl_lock, fl_submitted>>
    /\ NotFL

\* process_batch calls the next callback, which returns, or calls
\* add_to_batch, or calls flush
fl_callback ==
    /\ fl_stack # <<>>
    /\ Top.pc = "callbacks"
    /\ Top.batch # <<>>
    /\ LET cb   == Head(Top.batch)
           rest == Replace([Top EXCEPT !.batch = Tail(@)])
       IN  fl_stack' =
              IF cb = "adds"
              THEN Append(rest, Frame("add_to_batch", "acquire", <<>>, "plain"))
              ELSE IF cb = "flushes"
              THEN Append(rest, Frame("flush", "acquire", <<>>, "plain"))
              ELSE rest
    /\ UNCHANGED <<fl_buffer, fl_lock, fl_submitted>>
    /\ NotFL

\* process_batch has returned: flush leaves `with self.lock` and returns; a
\* process_batch the application called returns.
fl_return ==
    /\ fl_stack # <<>>
    /\ Top.pc = "callbacks"
    /\ Top.batch = <<>>
    /\ fl_lock' = IF Top.fn = "flush" THEN FALSE ELSE fl_lock
    /\ fl_stack' = Pop
    /\ UNCHANGED <<fl_buffer, fl_submitted>>
    /\ NotFL

NextFL ==
    \/ \E cb \in CallbackKinds : fl_call_add(cb)
    \/ fl_call_flush
    \/ fl_add_to_batch
    \/ fl_flush_acquire
    \/ fl_inference_fails
    \/ fl_callback
    \/ fl_return

(***************************************************************************)
(* get_asr_service (services/whisper_asr.py), called by tasks of one event *)
(* loop.  initialize() is a coroutine without an await of its own          *)
(* (whisper.load_model is a blocking call), so `await                      *)
(* _asr_service.initialize()` never hands control to the loop: a call runs *)
(* from its test of the global to its return, or to its raise, as one      *)
(* step.                                                                   *)
(***************************************************************************)

\* The tasks that call get_asr_service, and the most calls.
MaxTasks == 3
MaxGetCalls == 6

Tasks == 1..MaxTasks

\* WhisperASRService.initialize: `ok` says that whisper.load_model and
\* webrtcvad.Vad did not raise; otherwise RuntimeError leaves the service
\* constructed and without a model.
Initialize(ok) == IF ok THEN "initialized" ELSE "constructed"

\* get_asr_service: the global it leaves, whether initialize() ran, and what
\* the caller gets (the service in its state, or the RuntimeError).
GetAsrService(service, ok) ==
    IF service = "None"
    THEN [service |-> Initialize(ok), initialize |-> 1,
          received |-> IF ok THEN Initialize(ok) ELSE "RuntimeError"]
    ELSE [service |-> service, initialize |-> 0, received |-> service]

NotGS == UNCHANGED <<coreVars, libVars, ExtButGS>>

InitGS ==
    /\ asr_service = "None"
    /\ gs_initialize = 0
    /\ gs_received = [t \in Tasks |-> "nothing"]
    /\ gs_calls = 0

\* Task t runs `await get_asr_service()`
get_asr_service(t, ok) ==
    /\ gs_calls < MaxGetCalls
    /\ LET r == GetAsrService(asr_service, ok)
       IN  /\ asr_service' = r.service
           /\ gs_initialize' = gs_initialize + r.initialize
           /\ gs_received' = [gs_received EXCEPT ![t] = r.received]
    /\ gs_calls' = gs_calls + 1
    /\ NotGS

NextGS == \E t \in Tasks, ok \in BOOLEAN : get_asr_service(t, ok)

(***************************************************************************)
(* TextToSignService.translate (services/text_to_sign.py) from the         *)
(* generated actions on: schedule, add_rhythm, get_total_duration.  The    *)
(* intensity add_rhythm also scales has no part in the timing and is left  *)
(* out.                                                                    *)
(***************************************************************************)

\* The most translate calls: a call leaves nothing behind that bears on the
\* timing of the next.
MaxTranslations == 1

\* rhythm: None, the three patterns add_rhythm knows, and one it does not
RhythmPatterns == {NoId, "fast", "slow", "expressive", "moderate"}

\* The value of a short bit sequence
RECURSIVE BitsValue(_)
BitsValue(b) ==
    IF b = <<>> THEN 0 ELSE 2 * BitsValue(SubSeq(b, 1, Len(b) - 1)) + Last(b)

\* A significand as 5 digits of 11 bits each, digit 0 the least significant
Limbs(m) ==
    LET p == Pad(m, 55)
    IN  [k \in 0..4 |-> BitsValue(SubSeq(p, 45 - 11 * k, 55 - 11 * k))]

\* Column c of the long multiplication of x and y: the sum of the products
\* of the digits whose places add up to c
RECURSIVE Column(_, _, _, _)
Column(x, y, c, i) ==
    IF i > 4 THEN 0
    ELSE (IF c - i \in 0..4 THEN x[i] * y[c - i] ELSE 0) + Column(x, y, c, i + 1)

\* The digits of the product from place c on, least significant first,
\* with the carry that comes into place c
RECURSIVE ProductDigits(_, _, _, _)
ProductDigits(x, y, c, carry) ==
    IF c > 9 THEN <<>>
    ELSE LET sum == Column(x, y, c, 0) + carry
         IN  <<sum % 2048>> \o ProductDigits(x, y, c + 1, sum \div 2048)

\* The product of two significands, as 110 bits
Product(a, b) ==
    LET digits == ProductDigits(Limbs(a), Limbs(b), 0, 0)
    IN  [i \in 1..110 |->
            (digits[10 - ((i - 1) \div 11)] \div 2 ^ (10 - ((i - 1) % 11))) % 2]

\* x * y
FloatMul(x, y) ==
    IF x = Zero \/ y = Zero THEN Zero
    ELSE Round(Product(x.m, y.m), x.e + y.e, FALSE)

\* a <= b for bit sequences of one length
BitsLeq(a, b) ==
    \/ a = b
    \/ \E i \in DOMAIN a : a[i] < b[i] /\ \A j \in 1..(i - 1) : a[j] = b[j]

\* x <= y
FloatLeq(x, y) ==
    \/ x = Zero
    \/ /\ y # Zero
       /\ \/ x.e < y.e
          \/ x.e = y.e /\ BitsLeq(x.m, y.m)

\* The multiplier add_rhythm gives a pattern, in tenths
Multiplier(rhythm_pattern) ==
    IF rhythm_pattern = "fast" THEN 8
    ELSE IF rhythm_pattern = "slow" THEN 12
    ELSE IF rhythm_pattern = "expressive" THEN 11
    ELSE 10

\* SequenceScheduler.add_rhythm
AddRhythm(actions, rhythm_pattern) ==
    [i \in DOMAIN actions |->
        [actions[i] EXCEPT
            !.duration = FloatMul(@, Literal(Multiplier(rhythm_pattern)))]]

\* TextToSignService.translate for a text whose tokens map to action
\* templates of the given durations: the actions and total_duration of the
\* SignSequence it returns.
TranslateText(durations, rhythm, pause) ==
    LET generated == [i \in DOMAIN durations |-> SignAction(durations[i])]
        scheduled == Schedule(generated, Literal(0), pause)
        actions   == IF Truthy(rhythm) THEN AddRhythm(scheduled, rhythm)
                     ELSE scheduled
    IN  IF durations = <<>>
        THEN [actions |-> <<>>, total_duration |-> Zero]
        ELSE [actions |-> actions, total_duration |-> GetTotalDuration(actions)]

NotTR == UNCHANGED <<coreVars, libVars, ExtButTR>>

InitTR ==
    tr_last = [op |-> "init", rhythm |-> NoId, actions |-> <<>>,
               total_duration |-> Zero, calls |-> 0]

\* service.translate(text, rhythm=rhythm)
translate(durations, rhythm) ==
    /\ tr_last.calls < MaxTranslations
    /\ LET sequence == TranslateText(durations, rhythm, pause_duration)
       IN  tr_last' = [op |-> "translate", rhythm |-> rhythm,
                       actions |-> sequence.actions,
                       total_duration |-> sequence.total_duration,
                       calls |-> tr_last.calls + 1]
    /\ NotTR

NextTR ==
    \E durations \in UNION {[1..n -> ActionDurations] : n \in 0..MaxActions},
       rhythm \in RhythmPatterns :
        translate(durations, rhythm)

(***************************************************************************)
(* Specifications.                                                         *)
(***************************************************************************)
\* The components a specification does not move stay as constructed.
\* The further components as constructed.
IdleExt == InitSM /\ InitSS /\ InitBI /\ InitTG /\ InitSV /\ InitFL /\ InitGS /\ InitTR

IdleUtil ==
    /\ InitDB /\ InitTC /\ InitLK
    /\ BatchConstruct(MaxBatchSize) /\ LruConstruct(MaxCapacity)
    /\ InitML /\ InitASR /\ InitSCH /\ InitCAP
    /\ IdleExt

IdleCore == InitWS /\ InitDT /\ Construct(MaxWindow)

Idle == IdleCore /\ IdleUtil

Init == InitWS /\ InitDT /\ InitSR /\ IdleUtil

SpecReg == Idle /\ [][NextReg]_vars

SpecWS == Idle /\ [][NextWS]_vars

SpecDT == Idle /\ [][NextDT]_vars

SpecSR == Init /\ [][NextSR]_vars

SpecDB == Idle /\ [][NextDB]_vars

\* The callers of the cache arrive at a warm cache.
StartTC ==
    /\ InitWS /\ Construct(MaxWindow) /\ InitDB /\ InitLK /\ InitWarm
    /\ BatchConstruct(MaxBatchSize) /\ LruConstruct(MaxCapacity)
    /\ InitML /\ InitASR /\ InitSCH /\ InitCAP
    /\ IdleExt

SpecTC == StartTC /\ [][NextTC]_vars

SpecLK == Init /\ [][NextLK]_vars

\* BatchInferenceOptimizer(batch_size) for any batch size
StartBO ==
    /\ IdleCore /\ InitDB /\ InitTC /\ InitLK /\ LruConstruct(MaxCapacity)
    /\ InitML /\ InitASR /\ InitSCH /\ InitCAP
    /\ \E n \in 1..MaxBatchSize : BatchConstruct(n)
    /\ IdleExt

SpecBO == StartBO /\ [][NextBO]_vars

\* LRUCache(capacity) for any capacity
StartLRU ==
    /\ IdleCore /\ InitDB /\ InitTC /\ InitLK /\ BatchConstruct(MaxBatchSize)
    /\ InitML /\ InitASR /\ InitSCH /\ InitCAP
    /\ \E n \in 1..MaxCapacity : LruConstruct(n)
    /\ IdleExt

SpecLRU == StartLRU /\ [][NextLRU]_vars

SpecML == Idle /\ [][NextML]_vars

SpecSCH == Idle /\ [][NextSCH]_vars

SpecCAP == Idle /\ [][NextCAP]_vars

\* transcribe_stream for any target length, with and without resampling
StartASR ==
    /\ IdleCore /\ InitDB /\ InitTC /\ InitLK /\ InitML /\ InitSCH /\ InitCAP
    /\ BatchConstruct(MaxBatchSize) /\ LruConstruct(MaxCapacity)
    /\ \E rate \in {sample_rate, current_sr}, target \in 1..MaxTarget :
          TranscribeStream(rate, target)
    /\ IdleExt

SpecASR == StartASR /\ [][NextASR]_vars

SpecSM == Idle /\ [][NextSM]_vars

SpecSS == Idle /\ [][NextSS]_vars

SpecBI == Idle /\ [][NextBI]_vars

SpecTG == Idle /\ [][NextTG]_vars

SpecSV == Idle /\ [][NextSV]_vars

SpecFL == Idle /\ [][NextFL]_vars

SpecGS == Idle /\ [][NextGS]_vars

SpecTR == Idle /\ [][NextTR]_vars

Next ==
    \/ NextReg \/ NextWS \/ NextDT \/ NextSR \/ NextDB \/ NextTC \/ NextLK
    \/ NextBO \/ NextLRU \/ NextML \/ NextASR \/ NextSCH \/ NextCAP
    \/ NextSM
    \/ NextSS
    \/ NextBI
    \/ NextTG
    \/ NextSV
    \/ NextFL
    \/ NextGS
    \/ NextTR

Spec == Init /\ [][Next]_vars

(***************************************************************************)
(* Properties.                                                             *)
(***************************************************************************)

\* C1: starting from the registry as constructed (no entry, count 0),
\* connect(handle, id) followed by disconnect(id) leaves
\* get_connection_count() = 0 and is_connected(id) false, for every id.
C1_ConnectThenDisconnect ==
    (ws_last.op = "disconnect" /\ ws_last.fresh)
        => (get_connection_count = 0 /\ ~is_connected(ws_last.id))

C1_Witness ==
    ws_last.op = "disconnect" /\ ws_last.fresh /\ ws_last.was_connected

\* C2: a broadcast that excludes an id x registered among N connections
\* attempts delivery to exactly the N-1 others and never to x, for every
\* client id x.
C2_BroadcastExcludes ==
    (ws_last.op = "broadcast" /\ bc.exclude \in bc.before)
        => /\ bc.attempted = bc.before \ {bc.exclude}
           /\ Cardinality(bc.attempted) = Cardinality(bc.before) - 1

\* C3: a raising send does not end the broadcast loop: every connection that
\* is not excluded is sent the message; afterwards every connection whose send
\* raised is gone from the registry and every other one is still there.
C3_BroadcastIsolatesFailures ==
    ws_last.op = "broadcast"
        => /\ bc.attempted = {id \in bc.before : ~Skipped(id, bc.exclude)}
           /\ bc.failed = bc.attempted \cap bc.raising
           /\ Keys(active_connections) = bc.before \ (bc.attempted \cap bc.raising)

C3_Witness ==
    /\ ws_last.op = "broadcast"
    /\ bc.failed /= {}
    /\ bc.attempted \ bc.failed /= {}
    /\ Keys(active_connections) /= {}

\* C4: when a video connection ends by disconnect or error, the client is
\* deregistered first, then a disconnected/error status is broadcast to every
\* connection still registered, never to the departed client, and the message
\* carries the connection count as it is after the removal.
C4_VideoTeardown ==
    (ws_last.chan = "video" /\ handler[ws_last.ws] = "closed")
        => /\ ~is_connected(ws_last.id)
           /\ ws_last.id \notin bc.before
           /\ bc.status \in {"disconnected", "error"}
           /\ bc.exclude = ws_last.id
           /\ bc.attempted = bc.before
           /\ ws_last.id \notin bc.attempted
           /\ bc.total = bc.count

C4_Witness ==
    /\ ws_last.chan = "video"
    /\ ws_last.op = "closed"
    /\ ws_last.was_connected
    /\ bc.attempted /= {}
    /\ bc.total >= 1

\* C5: on either channel a text message that is not valid JSON is answered
\* with an error frame; when the send of that frame does not raise the
\* endpoint stays in its receive loop, the client stays registered and nothing
\* is broadcast; the endpoint leaves only when the send itself raises.
C5_BadJsonKeepsChannel ==
    ws_last.op = "bad_json"
        => /\ ws_last.ok <=> handler[ws_last.ws] = ws_last.chan
           /\ ~ws_last.ok <=> handler[ws_last.ws] = "closed"
           /\ ws_last.ok => /\ ws_last.was_connected => is_connected(ws_last.id)
                            /\ bc = NoBroadcast

C5_Witness ==
    /\ ws_last.op = "bad_json"
    /\ ws_last.ok
    /\ ws_last.was_connected
    /\ is_connected(ws_last.id)
    /\ handler[ws_last.ws] \in Channels

\* C6: of two text_to_sign calls with the same arguments, caching enabled, the
\* second made less than a TTL after the first stored its result, the first
\* adds nothing to cache_hits and the second adds exactly one and returns the
\* payload the first returned.
C6_SecondCallHits ==
    dt_last.op = "text_to_sign"
        => /\ dt_last.computed => dt_last.hits_added = 0
           /\ dt_last.repeat => /\ dt_last.hit
                                /\ dt_last.hits_added = 1
                                /\ dt_last.misses_added = 0
                                /\ dt_last.same_payload

C6_Witness ==
    /\ dt_last.op = "text_to_sign"
    /\ dt_last.repeat
    /\ dt_last.hit
    /\ stats.cache_hits = 1

\* C7: a cached translation is returned only while younger than the TTL; a
\* lookup that finds an entry of age TTL or more removes it, the translation
\* is computed again and cache_misses goes up by one.
C7_ExpiredNeverReturned ==
    /\ dt_last.hit => (dt_last.age >= 0 /\ dt_last.age < Ttl)
    /\ dt_last.age >= Ttl => /\ ~dt_last.hit
                             /\ dt_last.purged
                             /\ dt_last.computed
                             /\ dt_last.misses_added = 1

C7_Witness ==
    /\ dt_last.op = "text_to_sign"
    /\ dt_last.age >= Ttl
    /\ dt_last.computed

\* C8: a batch_translate over N inputs of which exactly one makes translate
\* raise returns without raising, with success_count + failure_count = N,
\* failure_count = 1 and N-1 results.
C8_BatchIsolation ==
    (dt_last.op = "batch_translate" /\ dt_last.bad = 1)
        => /\ ~dt_last.raised
           /\ dt_last.successful + dt_last.failed = dt_last.total
           /\ dt_last.failed = 1
           /\ dt_last.results = dt_last.total - 1

C8_Witness ==
    /\ dt_last.op = "batch_translate"
    /\ dt_last.bad = 1
    /\ dt_last.total >= 3
    /\ dt_last.results = dt_last.total - 1

\* C9: from an empty window of size W, process_frame returns no prediction
\* for the first W-1 frames and a prediction for every frame from the W-th
\* on. Stated for the runs most favourable to it: the window holds W frames
\* at most, every frame shows a hand and the classifier is sure of its class.
C9_WindowedPredictions ==
    (/\ sr_last.op = "process_frame"
     /\ buffer_maxlen = window_size
     /\ since_empty = calls_since_empty
     /\ sr_last.confident)
        => (sr_last.prediction /= "None" <=> calls_since_empty >= window_size)

\* C10: after set_window_size(n), n > 0, the window is empty and the service
\* works with window size n: a recognition runs on a frame with a hand
\* exactly when n such frames have been processed since the window was
\* emptied, and the window never holds more than n frames.
C10_ResizedWindow ==
    resized
        => /\ sr_last.op = "set_window_size" => frame_buffer = <<>>
           /\ Len(frame_buffer) <= window_size
           /\ (sr_last.op = "process_frame" /\ sr_last.hand = "hand")
                 => (sr_last.recognized <=> since_empty >= window_size)

\* C11: after delete_speaker(id) returns true the profile and the speaker's
\* sample-id list are gone, the sample index holds no sample of that speaker,
\* and no embedding file and no audio file of a sample it owned remains.
C11_DeleteSpeakerCascades ==
    (db_last.op = "delete_speaker" /\ db_last.ok)
        => /\ db_last.speaker \notin DOMAIN speakers_index
           /\ db_last.speaker \notin DOMAIN speaker_samples
           /\ Owned(db_last.speaker) = {}
           /\ db_last.owned \cap DOMAIN embedding_files = {}
           /\ db_last.owned \cap audio_files = {}

\* C12: after every add_sample and every delete_sample that succeeds, the
\* profile embedding of the speaker is the normalised mean of the embeddings
\* of exactly the samples now in the speaker's list (no embedding when the
\* list is empty).
C12_ProfileEmbeddingIsMean ==
    (/\ db_last.op \in {"add_sample", "delete_sample"}
     /\ db_last.ok
     /\ db_last.speaker \in DOMAIN speakers_index)
        => LET l  == speaker_samples[db_last.speaker]
               vs == [i \in DOMAIN l |-> samples_index[l[i]].embedding]
           IN  speakers_index[db_last.speaker].embedding =
                   IF l = <<>> THEN NoEmbedding ELSE NormalizedMean(vs)

\* C13: get, set and clear touch the cache only inside one `with self.lock:`
\* block each, and at most one thread is inside such a block; so whenever no
\* thread is inside a block the cache is what the same calls leave when made
\* one after the other, in the order they entered their blocks, and every
\* call has returned what it returns in that sequential run.
C13_CacheSerializable ==
    /\ Cardinality({t \in Threads : thread[t].pc \in InSection}) <= 1
    /\ \A t \in Threads : thread[t].pc \in InSection => lock = t
    /\ lock = 0 => cache = serial
    /\ returned.ret = returned.exp

\* A get has returned a cached value while another caller, which read the
\* clock some time ago, waits for the lock.
C13_Witness ==
    /\ lock = 0
    /\ returned.ret /= NoResult
    /\ \E t \in Threads :
          /\ thread[t].pc \in {"get_wait", "set_wait", "clear_wait"}
          /\ t /= returned.thread
          /\ thread[t].time < now

\* C14: at most one worker is inside a per-frame operation at a time, and
\* every read or write of the frame window, the window size, the prediction
\* history and the counters is made by a worker that holds the lock.
C14_SharedStateUnderLock ==
    /\ Cardinality({w \in Workers : worker[w] \in Locked}) <= 1
    /\ \A w \in Workers : worker[w] \in Locked => sr_lock = w
    /\ sr_access.locked

C16_LruEviction ==
    /\ Len(lru) <= capacity
    /\ lru_last.evicted /= <<>> =>
          LET gone   == lru_last.evicted[1]
              before == lru_last.held
          IN  /\ lru_last.op = "put"
              /\ Cardinality(before \cup {lru_last.key}) > capacity
              /\ gone \in before
              /\ gone /= lru_last.key
              /\ \A k \in before \ {lru_last.key} :
                     lru_last.touched[gone] <= lru_last.touched[k]
    /\ (lru_last.op = "put" /\ lru_last.evicted = <<>>) =>
          Cardinality(lru_last.held \cup {lru_last.key}) <= capacity

\* An overflow that evicts an entry put before another one but read since.
C16_Witness ==
    /\ lru_last.op = "put"
    /\ lru_last.evicted /= <<>>
    /\ capacity >= 2
    /\ \E k \in lru_last.held \ {lru_last.evicted[1]} :
          lru[1] = k /\ lru_last.touched[k] > lru_last.touched[lru_last.evicted[1]]

\* C17: download_model asks the server for nothing when the model file is
\* already in the cache, and after a download that failed, whatever the
\* cause, no file is left at the model's cache path.
C17_NoPartialFile ==
    ml_last.op = "download_model"
        => /\ ml_last.cached => (~ml_last.requested /\ ml_last.result)
           /\ ~ml_last.result => ~cache_files[ml_last.model].exists

\* C18: in transcribe_stream, after each incoming chunk has been handled the
\* buffer holds less than one chunk duration of samples, and when the stream
\* has ended every sample that arrived has been handed to transcribe exactly
\* once, in arrival order.
C18_StreamDrained ==
    /\ (asr_pc = "streaming" /\ asr_chunks > 0) => Len(asr_buffer) < asr_target
    /\ asr_pc = "ended" => Flatten(asr_transcribed) = [i \in 1..asr_seen |-> i]

\* The actions lie back to back from time t: each ends at its start plus its
\* duration and the next starts one pause after the previous end.
BackToBack(actions, t) ==
    \A i \in 1..Len(actions) :
        /\ actions[i].start_time = IF i = 1 THEN t
                                   ELSE FloatAdd(actions[i - 1].end_time, pause_duration)
        /\ actions[i].end_time = FloatAdd(actions[i].start_time, actions[i].duration)

\* The example: durations 0.8, 1.2 and 1.0 scheduled from t = 0, and its
\* total duration taken.
ExampleTotalTaken ==
    /\ sch_last.op = "get_total_duration"
    /\ Len(sch_actions) = 3
    /\ sch_actions[1].duration = Literal(8)
    /\ sch_actions[2].duration = Literal(12)
    /\ sch_actions[3].duration = Literal(10)
    /\ BackToBack(sch_actions, Zero)

\* x is the float next below y
NextBelow(x, y) == x.e = y.e /\ AddBits(x.m, <<>>, 1) = y.m

\* C19 as stated: schedule lays the actions out back to back from the start
\* time, and the example's total scheduled duration is exactly 3.6.
C19_TotalIsExactly ==
    /\ sch_last.op = "schedule" => BackToBack(sch_actions, sch_last.start_time)
    /\ ExampleTotalTaken => sch_last.total = Literal(36)

\* C19: schedule lays the actions out back to back from the start time, each
\* sum rounded as a float sum is, and the example's total scheduled duration
\* is 3.5999999999999996, the float next below 3.6.
C19_BackToBack ==
    /\ sch_last.op = "schedule" => BackToBack(sch_actions, sch_last.start_time)
    /\ ExampleTotalTaken => NextBelow(sch_last.total, Literal(36))

C19_Witness ==
    /\ ExampleTotalTaken
    /\ sch_actions[3].end_time = sch_last.total
    /\ sch_actions[2].start_time = FloatAdd(Literal(8), Literal(3))

\* The last call was a set of a key the cache did not hold, on a full cache.
Overflowed ==
    /\ cap_last.op = "set"
    /\ cap_last.key \notin CacheKeys(cap_last.before)
    /\ Len(cap_last.before) >= CacheSize

\* The keys the last call removed.
Removed == CacheKeys(cap_last.before) \ CacheKeys(cache)

\* C20: the cache never holds more than cache_size entries, and a set that
\* overflows the capacity removes exactly one entry, one whose timestamp (the
\* time it was set) is the oldest in the cache.
C20_CapacityAndEviction ==
    /\ Len(cache) <= CacheSize
    /\ Cardinality(CacheKeys(cache)) = Len(cache)
    /\ Overflowed =>
          /\ Cardinality(Removed) = 1
          /\ \A k \in Removed, e \in CacheKeys(cap_last.before) :
                CacheEntry(cap_last.before, k).timestamp
                    <= CacheEntry(cap_last.before, e).timestamp
          /\ cap_last.key \in CacheKeys(cache)
          /\ CacheEntry(cache, cap_last.key).timestamp = cap_last.at

\* An overflowing set removed the oldest entry of a cache whose entries were
\* set at different times.
C20_Witness ==
    /\ Overflowed
    /\ Len(cache) = CacheSize
    /\ \E k \in Removed, e \in CacheKeys(cap_last.before) :
          CacheEntry(cap_last.before, k).timestamp
              < CacheEntry(cap_last.before, e).timestamp

\* The labels of the history that no other label outnumbers.
MostFrequent ==
    {l \in Words : \A m \in Words :
        Count(prediction_history, m) <= Count(prediction_history, l)}

C22_LowConfidenceDropped ==
    ss_last.op = "smooth" =>
        \A k \in DOMAIN ss_last.smoothed :
            \A m \in ss_last.smoothed[k].members :
                ~BelowFloor(ss_last.gestures[m])

\* C23: after any sequence of connect and disconnect calls, repeated connects
\* with one client id included, get_connection_count() is the number of client
\* ids registered, and it is never negative.
C23_CountIsRegistered ==
    /\ get_connection_count = Cardinality(Keys(active_connections))
    /\ get_connection_count >= 0

\* C24: a broadcast during whose sends other handlers connect or disconnect
\* does not raise, and once it has completed it has attempted delivery to
\* every connection that was registered from its start to its end under an
\* id that is not excluded.
C24_BroadcastSurvivesChanges ==
    /\ bi.pc # "raised"
    /\ bi.pc = "done" =>
           \A i \in LiveSlots(bi_slots) :
               (bi_slots[i].ws \in bi.stayed
                    /\ ~Skipped(bi_slots[i].id, bi.exclude))
                   => bi_slots[i].ws \in bi.attempted

\* C25: when the endpoint of one socket leaves (its teardown runs), every
\* other socket whose endpoint is still in its receive loop, that was in the
\* registry before and to which no send of the teardown's broadcast failed,
\* is still in the registry afterwards.
C25_TeardownSparesOthers ==
    [][\A s \in Sockets, w \in Sockets :
          (/\ s # w
           /\ handler[s] \in Channels /\ handler'[s] = "closed"
           /\ handler'[w] \in Channels
           /\ w \in Live
           /\ client[w] \notin bc'.failed)
              => \E i \in DOMAIN active_connections' :
                     active_connections'[i].ws = w]_vars

\* C26: a result text_to_sign returns from the cache is the one a computation
\* with the arguments of this call builds (the time the computation took
\* aside): it was computed with this call's apply_grammar and rhythm.
C26_CachedEqualsComputed ==
    (tg_last.op = "text_to_sign" /\ tg_last.hit) =>
        \E d \in Durations :
            tg_last.result = SignTranslation(tg_last.text, tg_last.apply_grammar,
                                             tg_last.rhythm, d)

\* C27: after any sequence of add_word and remove_word the two maps are
\* inverses of each other: every word's index leads back to the word and
\* every index's word leads back to the index, so no index belongs to two
\* words and no word present has lost or changed its mapping.
C27_MapsAreInverse ==
    /\ \A w \in DOMAIN word_to_idx :
           /\ word_to_idx[w] \in DOMAIN idx_to_word
           /\ idx_to_word[word_to_idx[w]] = w
    /\ \A i \in DOMAIN idx_to_word :
           /\ idx_to_word[i] \in DOMAIN word_to_idx
           /\ word_to_idx[idx_to_word[i]] = i

\* The thread is inside a flush.
InFlush == \E i \in DOMAIN fl_stack : fl_stack[i].fn = "flush"

\* C28: flush always terminates and releases the buffer lock, also when a
\* callback it runs calls add_to_batch or flush on the same optimizer: while
\* a flush is in progress the thread can take a step, and outside of any
\* flush the lock is free.
C28_FlushTerminates ==
    /\ InFlush => ENABLED NextFL
    /\ ~InFlush => ~fl_lock

\* C29: however the get_asr_service calls of concurrent callers are ordered,
\* no caller receives a service whose initialize() has not completed, and
\* initialize() runs at most once.
C29_InitializedSingleton ==
    /\ \A t \in Tasks : gs_received[t] # "constructed"
    /\ gs_initialize <= 1

\* x and y differ by less than 2^-30: they are equal up to the rounding of
\* the float sums that made them.
Close(x, y) ==
    LET d == IF FloatLeq(x, y) THEN FloatSub(y, x) ELSE FloatSub(x, y)
    IN  d = Zero \/ d.e + Precision <= -30

\* C30: in every sequence translate returns, with or without a rhythm, each
\* action's end_time minus its start_time is its duration (up to float
\* rounding), an action does not start before the one before it has ended,
\* and the total duration is the last end minus the first start.
C30_TimingMatchesDurations ==
    tr_last.op = "translate" =>
        LET actions == tr_last.actions
        IN  /\ \A i \in DOMAIN actions :
                   Close(FloatSub(actions[i].end_time, actions[i].start_time),
                         actions[i].duration)
            /\ \A i \in DOMAIN actions :
                   i > 1 => FloatLeq(FloatAdd(actions[i - 1].start_time,
                                              actions[i - 1].duration),
                                     actions[i].start_time)
            /\ actions # <<>> =>
                   tr_last.total_duration =
                       FloatSub(actions[Len(actions)].end_time,
                                actions[1].start_time)

====
